---- MODULE Spec2Model ----
(***************************************************************************)
(* A model of bet/sample.py and bet/postProcess/compareP.py (BET): the     *)
(* sample-set data model, its local/global partition layer, the Voronoi /  *)
(* rectangle / ball queries and the exact volume formulas, the dimension   *)
(* bookkeeping of the discretization, and the comparison of two sample     *)
(* sets.                                                                   *)
(*                                                                         *)
(* Conventions.                                                            *)
(*  - A Python attribute that is None is the empty tuple <<>>; an          *)
(*    attribute holding x is <<x>>.                                        *)
(*  - A numpy array of shape (n,) or (n, ...) is a sequence of length n;   *)
(*    a row of `values` is a tuple of coordinates.                         *)
(*  - The program runs SPMD on comm.size workers: every worker holds its   *)
(*    own copy of every object and all workers make the same call with the *)
(*    same arguments (local setters get one shard per worker).  obj[r] is  *)
(*    the sample set object held by the worker of rank r.                  *)
(*  - Real numbers are exact rationals <<numerator, denominator>>.         *)
(*  - disc is the discretization, comp the comparison of                   *)
(*    bet/postProcess/compareP.py, heap the arrays and sample sets of the  *)
(*    ownership model (an array attribute names the buffer it views), and  *)
(*    frame the local variables and position of a call in progress.        *)
(***************************************************************************)
EXTENDS Integers, Sequences, FiniteSets, TLC

VARIABLES size, populated, obj, last, disc, comp, heap, frame

vars == <<size, populated, obj, last, disc, comp, heap, frame>>

-----------------------------------------------------------------------------
(* Bounds of the model.                                                    *)

\* largest comm.size explored
MaxW == 3
\* largest number of samples passed to a setter in the partition model
MaxN == 3
\* largest number of points a Voronoi sample set grows to by append_values
MaxPts == 3

-----------------------------------------------------------------------------
(* Python values.                                                          *)

None == <<>>

Some(x) == <<x>>

IsNone(v) == v = <<>>

Val(v) == v[1]

Min(a, b) == IF a < b THEN a ELSE b

Max(a, b) == IF a < b THEN b ELSE a

Abs(a) == IF a < 0 THEN -a ELSE a

\* one statement after another: the outcome e of a call is computed once and
\* handed to the statements that follow it
Then(e, rest(_)) == CHOOSE r \in {rest(x) : x \in {e}} : TRUE

Ranks == 0 .. (size - 1)

\* sequence <<f(0), ..., f(W-1)>> concatenated in rank order
RECURSIVE ConcatRanks(_, _)
ConcatRanks(parts, W) ==
    IF W = 0 THEN <<>>
    ELSE ConcatRanks(parts, W - 1) \o parts[W - 1]

RECURSIVE SumRanks(_, _)
SumRanks(nums, W) ==
    IF W = 0 THEN 0
    ELSE SumRanks(nums, W - 1) + nums[W - 1]

-----------------------------------------------------------------------------
(* sample_set_base: attributes.                                            *)

\* sample_set_base.array_names, in the order the loops visit them, without
\* _normalized_radii and _error_id, which no modelled operation populates
array_names ==
    <<"_values", "_volumes", "_probabilities", "_jacobians",
      "_error_estimates", "_right", "_left", "_width", "_kdtree_values",
      "_radii", "_region">>

\* array_name + "_local"
local_name ==
    [n \in {array_names[i] : i \in 1 .. Len(array_names)} |->
        CASE n = "_values" -> "_values_local"
          [] n = "_volumes" -> "_volumes_local"
          [] n = "_probabilities" -> "_probabilities_local"
          [] n = "_jacobians" -> "_jacobians_local"
          [] n = "_error_estimates" -> "_error_estimates_local"
          [] n = "_right" -> "_right_local"
          [] n = "_left" -> "_left_local"
          [] n = "_width" -> "_width_local"
          [] n = "_kdtree_values" -> "_kdtree_values_local"
          [] n = "_radii" -> "_radii_local"
          [] n = "_region" -> "_region_local"]

GlobalNames == {array_names[i] : i \in 1 .. Len(array_names)}

LocalNames == {local_name[n] : n \in GlobalNames}

OptionalNames == {"_volumes", "_probabilities", "_jacobians", "_error_estimates"}

\* np.inf and np.nan: integers beyond every coordinate of the model
inf == 1000
nan == 1001

\* sample_set_base.__init__(dim): every array attribute None, _p_norm 2.0;
\* "class" is the class of the object
sample_set_init(dim) ==
    [n \in GlobalNames \cup LocalNames \cup
           {"_dim", "_kdtree", "_local_index", "_domain", "_p_norm", "class"} |->
        IF n = "_dim" THEN Some(dim)
        ELSE IF n = "_p_norm" THEN Some(2)
        ELSE IF n = "class" THEN Some("sample_set")
        ELSE None]

rectangle_sample_set(dim) ==
    [sample_set_init(dim) EXCEPT !["class"] = Some("rectangle_sample_set")]

ball_sample_set(dim) ==
    [sample_set_init(dim) EXCEPT !["class"] = Some("ball_sample_set")]

\* .shape[0]
shape0(a) == Len(a)

\* .shape[1] of a two-dimensional array with at least one row
shape1(a) == Len(a[1])

-----------------------------------------------------------------------------
(* Results of a call on one worker.                                        *)

Ok(v) == [status |-> "ok", value |-> Some(v)]

Done == [status |-> "ok", value |-> None]

Raise(e) == [status |-> e, value |-> None]

\* the worker waits in a collective that some other worker never enters
Blocked == [status |-> "blocked", value |-> None]

-----------------------------------------------------------------------------
(* check_num / check_num_local.                                            *)

\* the loop over array_names of check_num (suffix "" ) and check_num_local:
\* num is the leading dimension of the first populated array, and a later
\* populated array of another length raises
\* a mutation of scan_num: a later array of another length is not noticed
RECURSIVE scan_num_first(_, _, _, _)
scan_num_first(o, names, i, num) ==
    IF i > Len(names) THEN [raised |-> FALSE, num |-> num]
    ELSE LET current_array == o[names[i]] IN
         IF IsNone(current_array) \/ ~IsNone(num)
         THEN scan_num_first(o, names, i + 1, num)
         ELSE scan_num_first(o, names, i + 1, Some(shape0(Val(current_array))))

RECURSIVE scan_num(_, _, _, _)
scan_num(o, names, i, num) ==
    IF i > Len(names) THEN [raised |-> FALSE, num |-> num]
    ELSE LET current_array == o[names[i]] IN
         IF IsNone(current_array) THEN scan_num(o, names, i + 1, num)
         ELSE IF IsNone(num)
              THEN scan_num(o, names, i + 1, Some(shape0(Val(current_array))))
              ELSE IF Val(num) # shape0(Val(current_array))
                   THEN [raised |-> TRUE, num |-> num]
                   ELSE scan_num(o, names, i + 1, num)

local_names_seq == [i \in 1 .. Len(array_names) |-> local_name[array_names[i]]]

\* values populated with a trailing dimension other than _dim
dim_mismatch(o) ==
    /\ ~IsNone(o["_values"])
    /\ shape0(Val(o["_values"])) > 0
    /\ shape1(Val(o["_values"])) # Val(o["_dim"])

check_num_local(o) ==
    LET s == scan_num(o, local_names_seq, 1, None) IN
    IF s.raised THEN Raise("length_not_matching")
    ELSE IF dim_mismatch(o) THEN Raise("dim_not_matching")
    ELSE [status |-> "ok", value |-> s.num]

\* the part of check_num before the allreduce
check_num_global(o) ==
    LET s == scan_num(o, array_names, 1, None) IN
    IF s.raised THEN Raise("length_not_matching")
    ELSE IF dim_mismatch(o) THEN Raise("dim_not_matching")
    ELSE [status |-> "ok", value |-> s.num]

\* worker q enters comm.allreduce in check_num
enters_allreduce(objs, q) ==
    /\ check_num_global(objs[q]).status = "ok"
    /\ IsNone(check_num_global(objs[q]).value)
    /\ check_num_local(objs[q]).status = "ok"

\* check_num on worker r, every worker calling it
check_num(objs, r) ==
    LET g == check_num_global(objs[r])
        W == Cardinality(DOMAIN objs)
    IN
    IF g.status # "ok" THEN g
    ELSE IF ~IsNone(g.value) THEN Ok(Val(g.value))
    ELSE LET l == check_num_local(objs[r]) IN
         IF l.status # "ok" THEN l
         ELSE IF \E q \in DOMAIN objs : ~enters_allreduce(objs, q) THEN Blocked
         ELSE Ok(SumRanks([q \in DOMAIN objs |->
                    LET lq == check_num_local(objs[q]).value IN
                    IF IsNone(lq) THEN 0 ELSE Val(lq)], W))

-----------------------------------------------------------------------------
(* Setters of sample_set_base.                                             *)

\* bet.util.fix_dimensions_data on an array that is already two-dimensional
fix_dimensions_data(values, dim) == values

\* set_values: the array is stored before its trailing dimension is checked
set_values(o, values) ==
    LET stored == [o EXCEPT !["_values"] =
                        Some(fix_dimensions_data(values, Val(o["_dim"])))] IN
    [obj |-> stored,
     res |-> IF shape1(Val(stored["_values"])) # Val(o["_dim"])
             THEN Raise("dim_not_matching") ELSE Done]

\* a mutation of set_volumes: an array whose length differs from the number
\* of values is rejected and nothing is stored
set_volumes_checked(o, volumes) ==
    IF ~IsNone(o["_values"]) /\ Len(volumes) # Len(Val(o["_values"]))
    THEN [obj |-> o, res |-> Raise("length_not_matching")]
    ELSE [obj |-> [o EXCEPT !["_volumes"] = Some(volumes)], res |-> Done]

set_volumes(o, volumes) ==
    [obj |-> [o EXCEPT !["_volumes"] = Some(volumes)], res |-> Done]

set_probabilities(o, probabilities) ==
    [obj |-> [o EXCEPT !["_probabilities"] = Some(probabilities)], res |-> Done]

set_jacobians(o, jacobians) ==
    [obj |-> [o EXCEPT !["_jacobians"] = Some(jacobians)], res |-> Done]

set_error_estimates(o, error_estimates) ==
    [obj |-> [o EXCEPT !["_error_estimates"] = Some(error_estimates)], res |-> Done]

\* set_values_local, set_volumes_local, set_probabilities_local,
\* set_jacobians_local, set_error_estimates_local: plain assignments
set_local(o, name, array_local) ==
    [obj |-> [o EXCEPT ![local_name[name]] = Some(array_local)], res |-> Done]

\* set_domain for a domain of shape (dim, 2)
set_domain(o, domain) ==
    IF Len(domain) # Val(o["_dim"])
    THEN [obj |-> o, res |-> Raise("dim_not_matching")]
    ELSE [obj |-> [o EXCEPT !["_domain"] = Some(domain)], res |-> Done]

-----------------------------------------------------------------------------
(* global_to_local / local_to_global.                                      *)

\* np.arange(num): the indices 0 .. num-1
arange(num) == [i \in 1 .. num |-> i - 1]

\* first index (0-based) of block r of numpy.array_split over W blocks: the
\* first n % W blocks hold n \div W + 1 entries, the others n \div W
split_start(n, W, r) == r * (n \div W) + Min(r, n % W)

\* a mutation of np_array_split: every block holds n \div W entries and the
\* remainder is dropped
np_array_split_floor(a, W, r) ==
    SubSeq(a, r * (Len(a) \div W) + 1, (r + 1) * (Len(a) \div W))

\* np.array_split(a, W)[r]
np_array_split(a, W, r) ==
    SubSeq(a, split_start(Len(a), W, r) + 1, split_start(Len(a), W, r + 1))

global_name(ln) == CHOOSE n \in GlobalNames : local_name[n] = ln

\* global_to_local on worker r, every worker calling it
global_to_local(objs, r) ==
    LET c == check_num(objs, r)
        o == objs[r]
        W == Cardinality(DOMAIN objs)
    IN
    IF c.status # "ok" THEN [obj |-> o, res |-> c]
    ELSE [obj |-> [n \in DOMAIN o |->
                    IF n = "_local_index"
                    THEN Some(np_array_split(arange(Val(c.value)), W, r))
                    ELSE IF n \in LocalNames /\ ~IsNone(o[global_name(n)])
                         THEN Some(np_array_split(Val(o[global_name(n)]), W, r))
                         ELSE o[n]],
          \* comm.barrier()
          res |-> IF \E q \in DOMAIN objs : check_num(objs, q).status # "ok"
                  THEN Blocked ELSE Done]

\* bet.util.get_global_values: gather and concatenate in worker-rank order
get_global_values(objs, ln) ==
    ConcatRanks([q \in DOMAIN objs |-> Val(objs[q][ln])], Cardinality(DOMAIN objs))

\* local_to_global on worker r, every worker calling it
local_to_global(objs, r) ==
    LET o == objs[r] IN
    [obj |-> [n \in DOMAIN o |->
                IF n \in GlobalNames /\ ~IsNone(o[local_name[n]])
                THEN Some(get_global_values(objs, local_name[n]))
                ELSE o[n]],
     res |-> Done]

-----------------------------------------------------------------------------
(* The partition model: one sample set of dimension 1 on comm.size workers,*)
(* driven by its setters, the two synchronisation calls and check_num.     *)

\* no worker waits in a collective that cannot complete
Alive == \A r \in Ranks : last.res[r].status # "blocked"

NoCall == [op |-> "__init__", name |-> "", arg |-> None,
           res |-> [r \in Ranks |-> Done]]

\* lengths of the arrays handed to the setters
Lens == (MaxN - 1) .. MaxN

Code(name) ==
    CASE name = "_values" -> 1
      [] name = "_volumes" -> 2
      [] name = "_probabilities" -> 3
      [] name = "_jacobians" -> 4
      [] name = "_error_estimates" -> 5
      [] OTHER -> 6

\* an array of n distinct entries for attribute name
Arr(name, n) == [i \in 1 .. n |-> 10 * Code(name) + i]

\* n rows of one coordinate
Rows(n) == [i \in 1 .. n |-> <<10 + i>>]

\* two rows of two coordinates: not of dimension 1
WideRows == <<<<11, 12>>, <<12, 11>>>>

PartValueInputs == {Rows(n) : n \in Lens} \cup {WideRows}

\* the shard handed to worker r by a local setter: one row per worker for
\* values, r + 1 entries on worker r for the other attributes
LocalArr(name, r) ==
    IF name = "_values" THEN <<<<100 + r>>>>
    ELSE [i \in 1 .. (r + 1) |-> 100 * Code(name) + 10 * r + i]

InitPartition ==
    /\ size \in 1 .. MaxW
    \* one run populates values and one of the optional attributes
    /\ populated \in {{n} : n \in OptionalNames}
    /\ obj = [r \in Ranks |-> sample_set_init(1)]
    /\ last = NoCall
    /\ disc = None
    /\ comp = None
    /\ heap = None
    /\ frame = None

\* apply the per-worker operation f(objs, r) on every worker
Call(op, name, arg, outcome) ==
    /\ Alive
    /\ \E out \in {outcome} :
       /\ obj' = [r \in Ranks |-> out[r].obj]
       /\ last' = [op |-> op, name |-> name, arg |-> arg,
                   res |-> [r \in Ranks |-> out[r].res]]
    /\ UNCHANGED <<size, populated, disc, comp, heap, frame>>

SetValues(values) ==
    Call("set_values", "_values", Some(values),
         [r \in Ranks |-> set_values(obj[r], values)])

SetVolumes(volumes) ==
    /\ "_volumes" \in populated
    /\ Call("set_volumes", "_volumes", Some(volumes),
            [r \in Ranks |-> set_volumes(obj[r], volumes)])

SetProbabilities(probabilities) ==
    /\ "_probabilities" \in populated
    /\ Call("set_probabilities", "_probabilities", Some(probabilities),
            [r \in Ranks |-> set_probabilities(obj[r], probabilities)])

SetJacobians(jacobians) ==
    /\ "_jacobians" \in populated
    /\ Call("set_jacobians", "_jacobians", Some(jacobians),
            [r \in Ranks |-> set_jacobians(obj[r], jacobians)])

SetErrorEstimates(error_estimates) ==
    /\ "_error_estimates" \in populated
    /\ Call("set_error_estimates", "_error_estimates", Some(error_estimates),
            [r \in Ranks |-> set_error_estimates(obj[r], error_estimates)])

SetLocal(name) ==
    /\ name \in populated \cup {"_values"}
    /\ Call("set_local", name, None,
            [r \in Ranks |-> set_local(obj[r], name, LocalArr(name, r))])

GlobalToLocal ==
    Call("global_to_local", "", None, [r \in Ranks |-> global_to_local(obj, r)])

LocalToGlobal ==
    Call("local_to_global", "", None, [r \in Ranks |-> local_to_global(obj, r)])

CheckNum ==
    Call("check_num", "", None,
         [r \in Ranks |-> [obj |-> obj[r], res |-> check_num(obj, r)]])

Next ==
    \/ \E v \in PartValueInputs : SetValues(v)
    \/ \E n \in Lens : SetVolumes(Arr("_volumes", n))
    \/ \E n \in Lens : SetProbabilities(Arr("_probabilities", n))
    \/ \E n \in Lens : SetJacobians(Arr("_jacobians", n))
    \/ \E n \in Lens : SetErrorEstimates(Arr("_error_estimates", n))
    \/ \E name \in OptionalNames \cup {"_values"} : SetLocal(name)
    \/ GlobalToLocal
    \/ LocalToGlobal
    \/ CheckNum

Spec == InitPartition /\ [][Next]_vars

-----------------------------------------------------------------------------
(* voronoi_sample_set: the nearest-neighbour index, query, exact_volume_1D *)
(* for points of one coordinate.                                           *)

\* append_values
append_values(o, values) ==
    IF IsNone(o["_values"]) THEN [obj |-> o, res |-> Raise("ValueError")]
    ELSE [obj |-> [o EXCEPT !["_values"] =
                     Some(Val(o["_values"])
                          \o fix_dimensions_data(values, Val(o["_dim"])))],
          res |-> Done]

\* set_kdtree: the tree and _kdtree_values hold the values it was built from
set_kdtree(o) ==
    IF IsNone(o["_values"]) THEN [obj |-> o, res |-> Raise("ValueError")]
    ELSE [obj |-> [o EXCEPT !["_kdtree"] = o["_values"],
                            !["_kdtree_values"] = o["_values"]],
          res |-> Done]

\* distance of two points of one coordinate (the same for every p-norm)
kd_dist(a, b) == Abs(a[1] - b[1])

\* scipy.spatial.KDTree.query(x, k=1) for one point: the indices (0-based) of
\* the points of the tree nearest to pt; the library picks one of them
kd_nearest(data, pt) ==
    {j \in 0 .. (Len(data) - 1) :
        \A j2 \in 0 .. (Len(data) - 1) :
            kd_dist(data[j + 1], pt) <= kd_dist(data[j2 + 1], pt)}

\* the possible results (dist, ptr) of KDTree.query on the points x
kd_query(data, x) ==
    {[dist |-> [i \in 1 .. Len(x) |-> kd_dist(data[ptr[i] + 1], x[i])],
      ptr |-> ptr] :
        ptr \in {f \in [1 .. Len(x) -> 0 .. (Len(data) - 1)] :
                    \A i \in 1 .. Len(x) : f[i] \in kd_nearest(data, x[i])}}

\* voronoi_sample_set.query(x) on worker r: the possible outcomes
query(objs, r, x) ==
    LET o == objs[r]
        built == IF IsNone(o["_kdtree"]) THEN set_kdtree(o)
                 ELSE [obj |-> o, res |-> check_num(objs, r)]
    IN
    IF built.res.status # "ok" THEN {[obj |-> built.obj, res |-> built.res]}
    ELSE {[obj |-> built.obj, res |-> Ok(q)] :
            q \in kd_query(Val(built.obj["_kdtree"]), x)}

\* np.argsort(values, 0): position a comes before position b
sorts_before(values, a, b) ==
    \/ values[a][1] < values[b][1]
    \/ values[a][1] = values[b][1] /\ a < b

\* np.squeeze(np.argsort(values, 0)) for two or more rows: 0-based indices
argsort(values) ==
    [k \in 1 .. Len(values) |->
        (CHOOSE a \in 1 .. Len(values) :
            Cardinality({b \in 1 .. Len(values) : sorts_before(values, b, a)})
                = k - 1) - 1]

\* the edges of the cells, doubled: the domain ends and the sums of
\* neighbouring sorted samples (twice their midpoints)
edges2(sorted_samples, domain) ==
    [k \in 1 .. (Len(sorted_samples) + 1) |->
        IF k = 1 THEN 2 * domain[1][1]
        ELSE IF k = Len(sorted_samples) + 1 THEN 2 * domain[1][2]
        ELSE sorted_samples[k - 1][1] + sorted_samples[k][1]]

\* lam_vol of exact_volume_1D: entry i is the rational <<numerator, denominator>>
lam_vol_1D(values, domain) ==
    LET sort_ind == argsort(values)
        sorted_samples == [k \in 1 .. Len(values) |-> values[sort_ind[k] + 1]]
        domain_width == domain[1][2] - domain[1][1]
        edges == edges2(sorted_samples, domain)
        sorted_lam_vol == [k \in 1 .. Len(values) |-> edges[k + 1] - edges[k]]
    IN
    [i \in 1 .. Len(values) |->
        <<sorted_lam_vol[CHOOSE k \in 1 .. Len(values) : sort_ind[k] = i - 1],
          2 * domain_width>>]

\* voronoi_sample_set.exact_volume_1D on worker r, every worker calling it
exact_volume_1D(objs, r) ==
    LET o == objs[r]
        c == check_num(objs, r)
    IN
    IF c.status # "ok" THEN [obj |-> o, res |-> c]
    ELSE IF Val(o["_dim"]) # 1 THEN [obj |-> o, res |-> Raise("dim_not_matching")]
    \* self._values is None: np.argsort(None, 0) has no axis 0
    ELSE IF IsNone(o["_values"]) THEN [obj |-> o, res |-> Raise("AxisError")]
    \* self._domain is None
    ELSE IF IsNone(o["_domain"]) THEN [obj |-> o, res |-> Raise("TypeError")]
    \* one sample: np.squeeze leaves a 0-d index, sorted_samples is 1-D and
    \* sorted_samples[:-1, :] has too many indices
    ELSE IF Len(Val(o["_values"])) = 1 THEN [obj |-> o, res |-> Raise("IndexError")]
    ELSE LET stored == [q \in DOMAIN objs |->
                          [objs[q] EXCEPT !["_volumes"] =
                              Some(lam_vol_1D(Val(objs[q]["_values"]),
                                              Val(objs[q]["_domain"])))]]
         IN global_to_local(stored, r)

-----------------------------------------------------------------------------
(* The Voronoi model: one sample set of dimension 1 on one worker.         *)

VoronoiValueInputs ==
    {<<<<2>>>>, <<<<1>>, <<5>>>>, <<<<5>>, <<1>>>>, <<<<6>>, <<2>>, <<4>>>>}

AppendInputs == {<<<<3>>>>}

QueryInputs == {<<<<0>>, <<4>>>>}

DomainInputs == {<<<<0, 8>>>>}

InitVoronoi ==
    /\ size = 1
    /\ populated = {}
    /\ obj = [r \in Ranks |-> sample_set_init(1)]
    /\ last = NoCall
    /\ disc = None
    /\ comp = None
    /\ heap = None
    /\ frame = None

AppendValues(values) ==
    /\ \A r \in Ranks :
         IF IsNone(obj[r]["_values"]) THEN TRUE
         ELSE Len(Val(obj[r]["_values"])) < MaxPts
    /\ Call("append_values", "_values", Some(values),
            [r \in Ranks |-> append_values(obj[r], values)])

SetKdtree ==
    Call("set_kdtree", "", None, [r \in Ranks |-> set_kdtree(obj[r])])

SetDomain(domain) ==
    Call("set_domain", "_domain", Some(domain),
         [r \in Ranks |-> set_domain(obj[r], domain)])

\* query(x) for given points x
Query(x) ==
    \E out \in [Ranks -> UNION {query(obj, r, x) : r \in Ranks}] :
        /\ \A r \in Ranks : out[r] \in query(obj, r, x)
        /\ Call("query", "", Some(x), out)

\* query(self._values)
QueryValues ==
    /\ \A r \in Ranks : ~IsNone(obj[r]["_values"])
    /\ Query(Val(obj[0]["_values"]))

ExactVolume1D ==
    Call("exact_volume_1D", "", None, [r \in Ranks |-> exact_volume_1D(obj, r)])

NextVoronoi ==
    \/ \E v \in VoronoiValueInputs : SetValues(v)
    \/ \E v \in AppendInputs : AppendValues(v)
    \/ \E d \in DomainInputs : SetDomain(d)
    \/ SetKdtree
    \/ \E x \in QueryInputs : Query(x)
    \/ QueryValues
    \/ ExactVolume1D

SpecVoronoi == InitVoronoi /\ [][NextVoronoi]_vars

-----------------------------------------------------------------------------
(* rectangle_sample_set and ball_sample_set: setup, query, exact volumes.  *)

\* set_p_norm
set_p_norm(o, p_norm) ==
    [obj |-> [o EXCEPT !["_p_norm"] = Some(p_norm)], res |-> Done]

\* rectangle_sample_set.setup(maxes, mins).  A centre 0.5*(max+min) is the
\* rational <<max + min, 2>>.
rectangle_setup(o, maxes, mins) ==
    LET dim == Val(o["_dim"])
        n == Len(maxes)
    IN
    IF Len(maxes) # Len(mins)
    THEN [obj |-> o, res |-> Raise("length_not_matching")]
    ELSE IF \E i \in 1 .. n : Len(maxes[i]) # dim \/ Len(mins[i]) # dim
    THEN [obj |-> o, res |-> Raise("length_not_matching")]
    ELSE LET values == [i \in 1 .. (n + 1) |-> [a \in 1 .. dim |->
                          IF i = n + 1 THEN <<inf, 1>>
                          ELSE <<maxes[i][a] + mins[i][a], 2>>]]
             right == [i \in 1 .. (n + 1) |-> [a \in 1 .. dim |->
                          IF i = n + 1 THEN inf ELSE maxes[i][a]]]
             left == [i \in 1 .. (n + 1) |-> [a \in 1 .. dim |->
                          IF i = n + 1 THEN -inf ELSE mins[i][a]]]
             width == [i \in 1 .. (n + 1) |-> [a \in 1 .. dim |->
                          IF i = n + 1 THEN inf ELSE right[i][a] - left[i][a]]]
             sv == set_values([o EXCEPT !["_right"] = Some(right),
                                        !["_left"] = Some(left),
                                        !["_width"] = Some(width)], values)
         IN
         IF sv.res.status # "ok" THEN sv
         ELSE [obj |-> [sv.obj EXCEPT !["_region"] = Some(arange(n + 1))],
               res |-> Done]

\* ball_sample_set.setup(centers, radii)
ball_setup(o, centers, radii) ==
    LET dim == Val(o["_dim"])
        n == Len(centers)
    IN
    IF Len(centers) # Len(radii)
    THEN [obj |-> o, res |-> Raise("length_not_matching")]
    ELSE IF \E i \in 1 .. n : Len(centers[i]) # dim
    THEN [obj |-> o, res |-> Raise("length_not_matching")]
    ELSE LET values == [i \in 1 .. (n + 1) |->
                          IF i = n + 1 THEN [a \in 1 .. dim |-> nan]
                          ELSE centers[i]]
             sv == set_values(o, values)
         IN
         IF sv.res.status # "ok" THEN sv
         ELSE [obj |-> [sv.obj EXCEPT
                          !["_radii"] = Some([i \in 1 .. (n + 1) |->
                                        IF i = n + 1 THEN inf ELSE radii[i]]),
                          !["_region"] = Some(arange(n + 1))],
               res |-> Done]

\* rectangle query: in_rec for region i (0-based) and the point pt
rectangle_in_rec(o, i, pt) ==
    /\ \A a \in 1 .. Len(pt) : pt[a] <= Val(o["_right"])[i + 1][a]
    /\ \A a \in 1 .. Len(pt) : pt[a] > Val(o["_left"])[i + 1][a]

RECURSIVE SumSeq(_, _)
SumSeq(f, n) == IF n = 0 THEN 0 ELSE f[n] + SumSeq(f, n - 1)

\* linalg.norm(d, p_norm) < radius for integer d and p_norm 1, 2 or inf
norm_less(d, p_norm, radius) ==
    CASE p_norm = 1 -> SumSeq([a \in 1 .. Len(d) |-> Abs(d[a])], Len(d)) < radius
      [] p_norm = 2 -> /\ radius > 0
                       /\ SumSeq([a \in 1 .. Len(d) |-> d[a] * d[a]], Len(d))
                            < radius * radius
      [] p_norm = inf -> \A a \in 1 .. Len(d) : Abs(d[a]) < radius

\* ball query: in_rec for region i (0-based) and the point pt
ball_in_rec(o, i, pt) ==
    norm_less([a \in 1 .. Len(pt) |-> pt[a] - Val(o["_values"])[i + 1][a]],
              Val(o["_p_norm"]), Val(o["_radii"])[i + 1])

\* a mutation of in_rec_now: slot 0 is overwritten by every containing region
in_rec_now_last(pt, i, j, in_rec, num) ==
    IF j = 0 THEN in_rec
    ELSE pt[j + 1] = num - 1 /\ in_rec /\ pt[j] # i

\* in_rec_now of the query loops, for the row pt of one point, region i and
\* slot j (both 0-based)
in_rec_now(pt, i, j, in_rec, num) ==
    IF j = 0 THEN pt[1] = num - 1 /\ in_rec
    ELSE pt[j + 1] = num - 1 /\ in_rec /\ pt[j] # i

\* for j in range(k), for the row [pt, dist] of one point
RECURSIVE slots(_, _, _, _, _, _)
slots(row, i, j, k, in_rec, num) ==
    IF j >= k THEN row
    ELSE slots(IF in_rec_now(row.pt, i, j, in_rec, num)
               THEN [pt |-> [row.pt EXCEPT ![j + 1] = i],
                     dist |-> [row.dist EXCEPT ![j + 1] = 0]]
               ELSE row,
               i, j + 1, k, in_rec, num)

\* for i in range(num - 1), for the row of one point; contains[i] is in_rec
RECURSIVE regions(_, _, _, _, _)
regions(row, i, k, contains, num) ==
    IF i >= num - 1 THEN row
    ELSE regions(slots(row, i, 0, k, contains[i], num), i + 1, k, contains, num)

\* query(x, k) of rectangle_sample_set and ball_sample_set on worker r
region_query(objs, r, x, k) ==
    LET o == objs[r]
        c == check_num(objs, r)
    IN
    IF c.status # "ok" THEN [obj |-> o, res |-> c]
    ELSE LET num == Val(c.value)
             rect == Val(o["class"]) = "rectangle_sample_set"
             rows == [p \in 1 .. Len(x) |->
                        regions([pt |-> [j \in 1 .. k |-> num - 1],
                                 dist |-> [j \in 1 .. k |-> inf]],
                                0, k,
                                [i \in 0 .. (num - 2) |->
                                    IF rect THEN rectangle_in_rec(o, i, x[p])
                                    ELSE ball_in_rec(o, i, x[p])],
                                num)]
         IN
         [obj |-> o,
          res |-> Ok([dist |-> [p \in 1 .. Len(x) |->
                                  IF k = 1 THEN rows[p].dist[1] ELSE rows[p].dist],
                      ptr |-> [p \in 1 .. Len(x) |->
                                  IF k = 1 THEN rows[p].pt[1] ELSE rows[p].pt]])]

RECURSIVE ProdSeq(_, _)
ProdSeq(f, n) == IF n = 0 THEN 1 ELSE f[n] * ProdSeq(f, n - 1)

RECURSIVE Pow(_, _)
Pow(b, e) == IF e = 0 THEN 1 ELSE b * Pow(b, e - 1)

\* the product of the domain widths
domain_vol(domain) ==
    ProdSeq([a \in 1 .. Len(domain) |-> domain[a][2] - domain[a][1]], Len(domain))

\* a mutation of remainder: only the first explicit region is subtracted
remainder_first(nums, den) ==
    IF Len(nums) = 0 THEN den ELSE den - nums[1]

\* the numerator of 1.0 - np.sum(volumes[0:-1]) for explicit volumes of
\* numerators nums over the common denominator den
remainder(nums, den) == den - SumSeq(nums, Len(nums))

\* rectangle_sample_set.exact_volume_lebesgue on worker r; a volume is the
\* rational <<numerator, denominator>>
exact_volume_lebesgue(objs, r) ==
    LET o == objs[r]
        c == check_num(objs, r)
    IN
    IF c.status # "ok" THEN [obj |-> o, res |-> c]
    ELSE LET num == Val(c.value)
             zeros == [o EXCEPT !["_volumes"] = Some([i \in 1 .. num |-> <<0, 1>>])]
         IN
         IF IsNone(o["_domain"]) \/ IsNone(o["_width"])
         THEN [obj |-> zeros, res |-> Raise("TypeError")]
         ELSE LET den == domain_vol(Val(o["_domain"]))
                  nums == [i \in 1 .. (num - 1) |->
                             ProdSeq(Val(o["_width"])[i], Val(o["_dim"]))]
              IN
              [obj |-> [o EXCEPT !["_volumes"] =
                          Some([i \in 1 .. num |->
                                  IF i < num THEN <<nums[i], den>>
                                  ELSE <<remainder(nums, den), den>>])],
               res |-> Done]

\* ball_sample_set.exact_volume on worker r; a volume is <<a, b, den>>, the
\* number (a + b * g) / den for
\* g = gamma(1 + 1/p_norm)**dim / gamma(1 + dim/p_norm)
exact_volume(objs, r) ==
    LET o == objs[r]
        c == check_num(objs, r)
    IN
    IF c.status # "ok" THEN [obj |-> o, res |-> c]
    ELSE LET num == Val(c.value)
             zeros == [o EXCEPT !["_volumes"] = Some([i \in 1 .. num |-> <<0, 0, 1>>])]
         IN
         IF IsNone(o["_domain"]) \/ IsNone(o["_radii"])
         THEN [obj |-> zeros, res |-> Raise("TypeError")]
         ELSE LET den == domain_vol(Val(o["_domain"]))
                  dim == Val(o["_dim"])
                  nums == [i \in 1 .. (num - 1) |->
                             Pow(2, dim) * Pow(Val(o["_radii"])[i], dim)]
              IN
              [obj |-> [o EXCEPT !["_volumes"] =
                          Some([i \in 1 .. num |->
                                  IF i < num THEN <<0, nums[i], den>>
                                  ELSE <<den, remainder(nums, 0), den>>])],
               res |-> Done]

-----------------------------------------------------------------------------
(* The region model: one rectangle or ball sample set on one worker.       *)

\* largest number k of neighbours asked of a query
MaxK == 3

Dims == {1, 2}

\* the box (lo, hi] x (lo, hi + 1] x ...
BoxMin(lo, dim) == [a \in 1 .. dim |-> lo]

BoxMax(hi, dim) == [a \in 1 .. dim |-> hi + (a - 1)]

\* the arguments (maxes, mins) of setup: one box, two and three overlapping
\* boxes, no box, and lists setup rejects
RectangleInputs(dim) ==
    {[maxes |-> <<BoxMax(3, dim)>>, mins |-> <<BoxMin(1, dim)>>],
     [maxes |-> <<BoxMax(3, dim), BoxMax(4, dim)>>,
      mins |-> <<BoxMin(1, dim), BoxMin(2, dim)>>],
     [maxes |-> <<BoxMax(4, dim), BoxMax(3, dim), BoxMax(4, dim)>>,
      mins |-> <<BoxMin(2, dim), BoxMin(1, dim), BoxMin(0, dim)>>],
     [maxes |-> <<>>, mins |-> <<>>],
     [maxes |-> <<BoxMax(3, dim), BoxMax(4, dim)>>, mins |-> <<BoxMin(1, dim)>>],
     [maxes |-> <<BoxMax(3, dim + 1)>>, mins |-> <<BoxMin(1, dim + 1)>>]}

\* the arguments (centers, radii) of setup
BallInputs(dim) ==
    {[centers |-> <<BoxMin(2, dim)>>, radii |-> <<1>>],
     [centers |-> <<BoxMin(2, dim), BoxMin(3, dim)>>, radii |-> <<2, 2>>],
     [centers |-> <<BoxMin(3, dim), BoxMin(1, dim), BoxMin(2, dim)>>,
      radii |-> <<2, 1, 3>>],
     [centers |-> <<>>, radii |-> <<>>],
     [centers |-> <<BoxMin(2, dim)>>, radii |-> <<1, 1>>],
     [centers |-> <<BoxMin(2, dim + 1)>>, radii |-> <<1>>]}

\* the arrays x of a query: one point, or two points
RegionQueryInputs(dim) ==
    {<<BoxMax(c, dim)>> : c \in 0 .. 5}
        \cup {<<BoxMin(c, dim)>> : c \in 1 .. 4}
        \cup {<<BoxMin(3, dim), BoxMax(5, dim)>>}

RegionDomain(dim) == [a \in 1 .. dim |-> <<0, 8>>]

InitRegion ==
    /\ size = 1
    /\ populated = {}
    /\ \E dim \in Dims :
         obj \in {[r \in Ranks |-> rectangle_sample_set(dim)],
                  [r \in Ranks |-> ball_sample_set(dim)]}
    /\ last = NoCall
    /\ disc = None
    /\ comp = None
    /\ heap = None
    /\ frame = None

IsRectangle == \A r \in Ranks : Val(obj[r]["class"]) = "rectangle_sample_set"

IsBall == \A r \in Ranks : Val(obj[r]["class"]) = "ball_sample_set"

SetPNorm(p_norm) ==
    Call("set_p_norm", "_p_norm", Some(p_norm),
         [r \in Ranks |-> set_p_norm(obj[r], p_norm)])

RectangleSetup ==
    /\ IsRectangle
    /\ \E in \in RectangleInputs(Val(obj[0]["_dim"])) :
         Call("setup", "", Some(in),
              [r \in Ranks |-> rectangle_setup(obj[r], in.maxes, in.mins)])

BallSetup ==
    /\ IsBall
    /\ \E in \in BallInputs(Val(obj[0]["_dim"])) :
         Call("setup", "", Some(in),
              [r \in Ranks |-> ball_setup(obj[r], in.centers, in.radii)])

RegionSetDomain ==
    Call("set_domain", "_domain", Some(RegionDomain(Val(obj[0]["_dim"]))),
         [r \in Ranks |-> set_domain(obj[r], RegionDomain(Val(obj[0]["_dim"])))])

RegionQuery ==
    \E x \in RegionQueryInputs(Val(obj[0]["_dim"])), k \in 1 .. MaxK :
        Call("query", "", Some([x |-> x, k |-> k]),
             [r \in Ranks |-> region_query(obj, r, x, k)])

ExactVolumeLebesgue ==
    /\ IsRectangle
    /\ Call("exact_volume_lebesgue", "", None,
            [r \in Ranks |-> exact_volume_lebesgue(obj, r)])

ExactVolume ==
    /\ IsBall
    /\ Call("exact_volume", "", None, [r \in Ranks |-> exact_volume(obj, r)])

NextRegion ==
    \/ \E p_norm \in {1, 2, inf} : SetPNorm(p_norm)
    \/ RectangleSetup
    \/ BallSetup
    \/ RegionSetDomain
    \/ RegionQuery
    \/ ExactVolumeLebesgue
    \/ ExactVolume

SpecRegion == InitRegion /\ [][NextRegion]_vars

-----------------------------------------------------------------------------
(* discretization: the dimension and iteration bookkeeping.                *)
(*                                                                         *)
(* A numeric array is modelled by its length (0 for a scalar), a list of   *)
(* indices by the sequence of its entries, a frozen distribution by a      *)
(* record naming its kind and the length plen of its parameters.  A Python *)
(* int n passed where a list may be passed is <<"int", n>>.  Steps whose   *)
(* outcome depends on the numbers held (drawing noise of a matching shape, *)
(* fitting a kernel density estimate) succeed or raise as lib says.        *)

IsInt(v) == Len(v) = 2

\* the attributes of a sample set that a discretization reads and writes
held_sample_set(dim) ==
    [n \in {"_dim", "_values", "_reference_value", "_distribution"} |->
        IF n = "_dim" THEN dim ELSE None]

\* the record of default_setup and of __init__
default_setup ==
    [col |-> FALSE, inds |-> None, qoi |-> "SWE", std |-> None, obs |-> None,
     pre |-> None, model |-> None]

\* discretization.__init__
discretization(input_sample_set, output_sample_set, output_probability_set) ==
    [n \in {"_input_sample_set", "_output_sample_set",
            "_output_probability_set", "_iteration", "_setup"} |->
        CASE n = "_input_sample_set" -> input_sample_set
          [] n = "_output_sample_set" -> output_sample_set
          [] n = "_output_probability_set" -> output_probability_set
          [] n = "_iteration" -> 0
          [] n = "_setup" -> (0 :> default_setup)]

\* the outcome of a method: the discretization afterwards, the result, and
\* the value returned
DRes(d, res, ret) == [d |-> d, res |-> res, ret |-> ret]

\* self._output_probability_set, when it is not None
prob(d) == Val(d["_output_probability_set"])

\* a mutation of set_prob_dim: the dimension is left as constructed
set_prob_dim_kept(d, dim) ==
    d

\* self._output_probability_set._dim = dim
set_prob_dim(d, dim) ==
    [d EXCEPT !["_output_probability_set"][1]["_dim"] = dim]

\* self._output_probability_set._reference_value = ref_val
set_prob_ref(d, ref_val) ==
    [d EXCEPT !["_output_probability_set"][1]["_reference_value"] = ref_val]

\* self._output_probability_set._distribution = dist
set_prob_dist(d, dist) ==
    [d EXCEPT !["_output_probability_set"][1]["_distribution"] = dist]

\* scipy.stats.norm frozen with parameters of length plen
norm(plen) == Some([kind |-> "norm", plen |-> plen])

\* np.array([x]) for a scalar x, the array itself otherwise
as_array(n) == IF n = 0 THEN 1 ELSE n

\* a[inds] is defined for an array a of length n
index_ok(n, inds) ==
    \A i \in 1 .. Len(inds) : inds[i] < n /\ inds[i] >= -n

\* an array of length n (a scalar if 0) broadcasts to length m
broadcasts(n, m) == n \in {0, 1, m}

\* get_indices(iteration), for an iteration that has a record
get_indices(d, iteration) ==
    LET inds == d["_setup"][iteration].inds IN
    IF IsNone(inds) THEN arange(d["_output_sample_set"]["_dim"])
    ELSE Val(inds)

\* the iteration meant by the argument iteration=None / iteration=k
the_iteration(d, iteration) ==
    IF IsNone(iteration) THEN d["_iteration"] ELSE Val(iteration)

\* set_data_from_reference(iteration, dist)
set_data_from_reference(d, iteration, dist, lib) ==
    LET it == the_iteration(d, iteration) IN
    IF it \notin DOMAIN d["_setup"] THEN DRes(d, Raise("KeyError"), None)
    ELSE
    LET inds == get_indices(d, it)
        dim == Len(inds)
        Q_ref == d["_output_sample_set"]["_reference_value"]
        lam_ref == d["_input_sample_set"]["_reference_value"]
        unique == Cardinality({inds[i] : i \in 1 .. Len(inds)})
    IN
    IF IsNone(dist) /\ IsNone(d["_output_probability_set"])
    THEN DRes(d, Raise("AttributeError"), None)
    ELSE IF IsNone(Q_ref) /\ ~IsNone(lam_ref) /\ IsNone(d["_setup"][it].model)
    THEN DRes(d, Raise("AttributeError"), None)
    ELSE IF ~IsNone(Q_ref) /\ ~index_ok(Val(Q_ref), inds)
    THEN DRes(d, Raise("IndexError"), None)
    ELSE IF IsNone(d["_output_probability_set"])
    THEN DRes(d, Raise("AttributeError"), None)
    ELSE
    LET noise_model == IF IsNone(dist) THEN prob(d)["_distribution"] ELSE dist
        d1 == set_prob_dim(d, unique)
    IN
    IF unique = 0 THEN DRes(d1, Raise("ZeroDivisionError"), None)
    \* self._output_probability_set.rvs(dim//unique, dist=noise_model)
    ELSE IF IsNone(noise_model) THEN DRes(d1, Raise("AttributeError"), None)
    ELSE IF ~lib["rvs"] THEN DRes(d1, Raise("ValueError"), None)
    \* Q_ref += ...
    ELSE IF IsNone(Q_ref) THEN DRes(d1, Raise("TypeError"), None)
    \* Q_ref -= self._output_probability_set._reference_value
    ELSE IF ~d["_setup"][it].col /\ IsNone(prob(d1)["_reference_value"])
    THEN DRes(d1, Raise("TypeError"), None)
    ELSE IF ~d["_setup"][it].col
            /\ ~broadcasts(Val(prob(d1)["_reference_value"]), dim)
    THEN DRes(d1, Raise("ValueError"), None)
    ELSE DRes(set_prob_dim(set_prob_ref(d1, Some(dim)), dim), Done, Some(dim))

\* estimate_data_std
estimate_data_std(d, lib) ==
    IF IsNone(d["_output_probability_set"])
    THEN DRes(d, Raise("AttributeError"), None)
    ELSE
    Then(IF IsNone(prob(d)["_reference_value"])
         THEN set_data_from_reference(d, None, None, lib)
         ELSE DRes(d, Done, prob(d)["_reference_value"]),
         LAMBDA drawn :
    IF drawn.res.status # "ok" THEN drawn
    ELSE IF drawn.d["_iteration"] \notin DOMAIN drawn.d["_setup"]
    THEN DRes(drawn.d, Raise("KeyError"), None)
    ELSE DRes([drawn.d EXCEPT !["_setup"][drawn.d["_iteration"]].std = Some(0)],
              Done, Some(0)))

\* set_std(std, iteration)
set_std(d, std, iteration, lib) ==
    LET it == the_iteration(d, iteration)
        cur == d["_iteration"]
    IN
    IF IsNone(std) /\ it \notin DOMAIN d["_setup"]
    THEN DRes(d, Raise("KeyError"), None)
    ELSE IF IsNone(std) /\ IsNone(d["_setup"][it].std) /\ IsNone(d["_setup"][it].obs)
    THEN estimate_data_std(d, lib)
    ELSE
    LET inferred == IsNone(std) /\ IsNone(d["_setup"][it].std)
        std1 == IF inferred THEN Some(Val(d["_setup"][it].obs).plen) ELSE std
        d1 == IF inferred /\ d["_setup"][it].col
              THEN [d EXCEPT !["_setup"][it].obs = None] ELSE d
    IN
    IF cur \notin DOMAIN d["_setup"] THEN DRes(d1, Raise("KeyError"), None)
    ELSE DRes([d1 EXCEPT !["_setup"][cur].std = std1], Done, None)

\* get_data, which returns an array or raises
get_data(d) ==
    IF IsNone(d["_output_probability_set"])
    THEN DRes(d, Raise("AttributeError"), None)
    ELSE IF ~IsNone(prob(d)["_reference_value"])
    THEN DRes(d, Done, prob(d)["_reference_value"])
    ELSE IF d["_iteration"] \notin DOMAIN d["_setup"]
    THEN DRes(d, Raise("KeyError"), None)
    ELSE IF IsNone(d["_output_sample_set"]["_reference_value"])
    THEN DRes(d, Raise("TypeError"), None)
    ELSE IF ~index_ok(Val(d["_output_sample_set"]["_reference_value"]),
                      get_indices(d, d["_iteration"]))
    THEN DRes(d, Raise("IndexError"), None)
    ELSE DRes(d, Done, Some(Len(get_indices(d, d["_iteration"]))))

\* format_output_data(x=None, iteration): returns the shape of qoi
format_output_data(d, iteration, lib) ==
    LET it == the_iteration(d, iteration) IN
    IF it \notin DOMAIN d["_setup"] THEN DRes(d, Raise("KeyError"), None)
    ELSE
    LET inds == get_indices(d, it)
        out == d["_output_sample_set"]
    IN
    \* qoi = self._output_sample_set._values[:, inds]
    IF IsNone(out["_values"]) THEN DRes(d, Raise("TypeError"), None)
    ELSE IF ~index_ok(out["_dim"], inds) THEN DRes(d, Raise("IndexError"), None)
    ELSE
    LET data_driven_status == d["_setup"][it].col IN
    Then(IF IsNone(d["_setup"][it].std) THEN set_std(d, None, None, lib)
         ELSE DRes(d, Done, d["_setup"][it].std),
         LAMBDA got :
    IF got.res.status # "ok" THEN got
    ELSE IF IsNone(got.ret) THEN DRes(got.d, Raise("AttributeError"), None)
    ELSE IF as_array(Val(got.ret)) = 1 /\ ~index_ok(1, inds)
    THEN DRes(got.d, Raise("IndexError"), None)
    ELSE
    LET std == IF as_array(Val(got.ret)) = 1 THEN Len(inds) ELSE Val(got.ret)
        data == get_data(got.d)
    IN
    IF ~data_driven_status
    THEN DRes(got.d, Done, Some(<<Val(out["_values"]), Len(inds)>>))
    ELSE IF data.res.status # "ok" THEN data
    \* loss_fun: np.divide((outputs - data), data_std)
    ELSE IF ~broadcasts(Val(data.ret), Len(inds)) \/ ~broadcasts(std, Len(inds))
    THEN DRes(got.d, Raise("ValueError"), None)
    ELSE DRes(got.d, Done, Some(<<Val(out["_values"]), 1>>)))

\* compute_pushforward(dist=None, iteration)
compute_pushforward(d, iteration, lib) ==
    LET it == the_iteration(d, iteration) IN
    Then(format_output_data(d, iteration, lib), LAMBDA data :
    IF data.res.status # "ok" THEN data
    \* gkde(data.T)
    ELSE IF ~lib["kde"] THEN DRes(data.d, Raise("LinAlgError"), None)
    ELSE
    LET kde == Some([kind |-> "gaussian_kde", inds |-> get_indices(data.d, it),
                     col |-> data.d["_setup"][it].col])
    IN
    DRes([data.d EXCEPT !["_output_sample_set"]["_distribution"] = kde,
                        !["_setup"][it].pre = kde],
         Done, None))

\* set_indices(inds, iteration, pushforward)
set_indices(d, inds, iteration, pushforward, lib) ==
    LET it == the_iteration(d, iteration) IN
    IF it \notin DOMAIN d["_setup"] THEN DRes(d, Raise("KeyError"), None)
    ELSE IF IsNone(inds) /\ IsNone(d["_output_probability_set"])
    THEN DRes(d, Raise("AttributeError"), None)
    ELSE
    LET inds1 == IF IsNone(inds) THEN arange(prob(d)["_dim"])
                 ELSE IF IsInt(inds) THEN <<inds[2]>>
                 ELSE Val(inds)
        d1 == [d EXCEPT !["_setup"][it].inds = Some(inds1)]
    IN
    IF IsNone(d["_output_probability_set"])
    THEN DRes(d1, Raise("AttributeError"), None)
    ELSE IF pushforward
    THEN compute_pushforward(set_prob_dim(d1, Len(inds1)), Some(it), lib)
    ELSE DRes(set_prob_dim(d1, Len(inds1)), Done, None)

\* a mutation of iterate: the new record keeps the default indices
iterate_without_inds(d) ==
    LET it == d["_iteration"] + 1
        d1 == [d EXCEPT !["_iteration"] = it,
                        !["_setup"] = [k \in DOMAIN d["_setup"] \cup {it} |->
                                         IF k = it THEN default_setup
                                         ELSE d["_setup"][k]]]
    IN
    IF (it - 1) \notin DOMAIN d1["_setup"] THEN DRes(d1, Raise("KeyError"), None)
    ELSE DRes([d1 EXCEPT !["_setup"][it].obs = d1["_setup"][it - 1].obs,
                         !["_setup"][it].pre = d1["_setup"][it - 1].pre,
                         !["_setup"][it].std = d1["_setup"][it - 1].std,
                         !["_setup"][it].col = d1["_setup"][it - 1].col],
              Done, None)

\* iterate
iterate(d) ==
    LET it == d["_iteration"] + 1
        d1 == [d EXCEPT !["_iteration"] = it,
                        !["_setup"] = [k \in DOMAIN d["_setup"] \cup {it} |->
                                         IF k = it THEN default_setup
                                         ELSE d["_setup"][k]]]
    IN
    IF (it - 1) \notin DOMAIN d1["_setup"] THEN DRes(d1, Raise("KeyError"), None)
    ELSE DRes([d1 EXCEPT !["_setup"][it].obs = d1["_setup"][it - 1].obs,
                         !["_setup"][it].pre = d1["_setup"][it - 1].pre,
                         !["_setup"][it].std = d1["_setup"][it - 1].std,
                         !["_setup"][it].col = d1["_setup"][it - 1].col,
                         !["_setup"][it].inds = d1["_setup"][it - 1].inds],
              Done, None)

\* set_iteration
set_iteration(d, iteration) ==
    DRes([d EXCEPT !["_iteration"] = iteration], Done, None)

\* the loop of iterate_by for an integer breaks, from pass i on
RECURSIVE iterate_by_loop(_, _, _, _, _)
iterate_by_loop(d, i, num_iterations, breaks, lib) ==
    IF i >= num_iterations THEN DRes(d, Done, None)
    ELSE Then(iterate(d), LAMBDA it :
         IF it.res.status # "ok" THEN it
         ELSE Then(set_indices(it.d,
                               Some([j \in 1 .. breaks |-> (j - 1) + i * breaks]),
                               Some(i), TRUE, lib),
                   LAMBDA si :
              IF si.res.status # "ok" THEN si
              ELSE iterate_by_loop(si.d, i + 1, num_iterations, breaks, lib)))

\* iterate_by(breaks) for an integer breaks
iterate_by(d, breaks, lib) ==
    LET dim == d["_output_sample_set"]["_dim"] IN
    IF breaks = 0 THEN DRes(d, Raise("ZeroDivisionError"), None)
    ELSE IF dim % breaks # 0 THEN DRes(d, Raise("ValueError"), None)
    ELSE iterate_by_loop(d, 0, dim \div breaks, breaks, lib)

\* the loop of tile_by, from pass i on
RECURSIVE tile_by_loop(_, _, _, _, _)
tile_by_loop(d, i, num_iterations, length, lib) ==
    IF i >= num_iterations THEN DRes(d, Done, None)
    ELSE Then(set_indices(d, Some([j \in 1 .. length |-> (j - 1) + i]),
                          Some(i), TRUE, lib),
              LAMBDA si :
         IF si.res.status # "ok" THEN si
         ELSE tile_by_loop(si.d, i + 1, num_iterations, length, lib))

\* tile_by(length)
tile_by(d, length, lib) ==
    tile_by_loop(d, 0, d["_output_sample_set"]["_dim"] + 1 - length, length, lib)

\* the length of the parameters of norm(**kwds) for the keyword loc
loc_plen(loc) == IF IsNone(loc) \/ IsInt(loc) THEN 0 ELSE Val(loc)

\* set_observed_distribution(dist, iteration, **kwds); kwds holds loc (None
\* when absent, an int, or a list given by its length) and scale
set_observed_distribution(d, dist, iteration, kwds, lib) ==
    LET it == the_iteration(d, iteration) IN
    IF it \notin DOMAIN d["_setup"] THEN DRes(d, Raise("KeyError"), None)
    ELSE
    LET inds == get_indices(d, it)
        dim == Len(inds)
    IN
    \* set_output_probability_set(sample_set(dim))
    IF IsNone(d["_output_probability_set"]) /\ dim # d["_output_sample_set"]["_dim"]
    THEN DRes(d, Raise("dim_not_matching"), None)
    ELSE
    LET d1 == set_prob_dim(
                IF IsNone(d["_output_probability_set"])
                THEN [d EXCEPT !["_output_probability_set"] = Some(held_sample_set(dim))]
                ELSE d, dim)
        d2 == IF IsNone(dist) /\ ~IsNone(kwds.scale)
              THEN [d1 EXCEPT !["_setup"][it].std = kwds.scale] ELSE d1
    IN
    Then(IF IsNone(dist) /\ IsNone(prob(d2)["_reference_value"])
         THEN set_data_from_reference(set_prob_ref(d2, Some(dim)), None,
                                      norm(loc_plen(kwds.loc)), lib)
         ELSE DRes(d2, Done, None),
         LAMBDA sim :
    IF sim.res.status # "ok" THEN DRes(sim.d, sim.res, None)
    ELSE
    LET d3 == sim.d
        had_ref == ~IsNone(prob(d3)["_reference_value"])
        \* ref_val: kwds['loc'] as an array, else get_data(), else dist.median()
        ref_val == IF ~IsNone(kwds.loc)
                   THEN (IF IsInt(kwds.loc) THEN dim ELSE Val(kwds.loc))
                   ELSE IF had_ref THEN Val(prob(d3)["_reference_value"])
                   ELSE 0
        plen == IF ~IsNone(kwds.loc) THEN loc_plen(kwds.loc)
                ELSE IF had_ref THEN ref_val
                ELSE 0
        obs_dist == norm(plen)
        d4 == set_prob_dist(set_prob_ref(d3, Some(ref_val)), obs_dist)
    IN
    \* set_distribution: domain[:, 0], domain[:, 1] = mins, maxs
    IF ~broadcasts(plen, dim) THEN DRes(d4, Raise("dim_not_matching"), None)
    ELSE DRes(set_prob_ref(set_prob_dim(
                  [d4 EXCEPT !["_setup"][it].obs = obs_dist,
                             !["_setup"][it].std = Some(plen)], dim),
                  Some(ref_val)),
              Done, None))

\* data_driven(inds, data, std)
data_driven(d, inds, data, std, lib) ==
    LET cur == d["_iteration"] IN
    IF cur \notin DOMAIN d["_setup"] THEN DRes(d, Raise("KeyError"), None)
    ELSE
    LET inds1 == IF IsNone(inds) THEN Some(get_indices(d, cur)) ELSE inds
        dim == IF IsInt(inds1) THEN 1 ELSE Len(Val(inds1))
        d1 == [d EXCEPT !["_setup"][cur].inds =
                            IF IsInt(inds1) THEN @ ELSE inds1,
                        !["_setup"][cur].col = TRUE,
                        !["_setup"][cur].obs = None]
        created == IsNone(d["_output_probability_set"])
        d2 == IF created
              THEN [d1 EXCEPT !["_output_probability_set"] =
                      Some([held_sample_set(dim) EXCEPT !["_distribution"] =
                              norm(IF IsNone(std) THEN 0 ELSE Val(std))])]
              ELSE d1
        std1 == IF created /\ IsNone(std) THEN Some(0) ELSE std
    IN
    \* logging.log("Missing std, be careful.")
    IF IsNone(std1) /\ IsNone(d2["_setup"][cur].std)
    THEN DRes(d2, Raise("TypeError"), None)
    ELSE
    LET std2 == IF IsNone(std1) THEN d2["_setup"][cur].std ELSE std1
        d3 == set_prob_dim(
                set_prob_dist([d2 EXCEPT !["_setup"][cur].std = std2],
                              norm(Val(std2))), dim)
        old == prob(d3)["_reference_value"]
    IN
    \* len(Q_ref) != len(inds)
    IF ~IsNone(old) /\ IsInt(inds1) THEN DRes(d3, Raise("TypeError"), None)
    ELSE IF ~IsNone(old) /\ as_array(Val(old)) # dim
            /\ ~index_ok(as_array(Val(old)), Val(inds1))
    THEN DRes(d3, Raise("IndexError"), None)
    ELSE IF ~IsNone(data) /\ Val(data) # dim
    THEN DRes(d3, Raise("dim_not_matching"), None)
    ELSE
    Then(IF IsNone(old) /\ IsNone(data)
         THEN set_data_from_reference(d3, None, None, lib)
         ELSE DRes(d3, Done, IF ~IsNone(data) THEN data ELSE Some(dim)),
         LAMBDA drawn :
    IF drawn.res.status # "ok" THEN DRes(drawn.d, drawn.res, None)
    ELSE
    LET d4 == set_prob_ref(drawn.d, Some(as_array(Val(drawn.ret)))) IN
    IF ~IsInt(inds1) THEN set_indices(d4, inds1, None, TRUE, lib)
    ELSE IF inds1[2] > 0 THEN iterate_by(d4, inds1[2], lib)
    ELSE IF inds1[2] < 0 THEN tile_by(d4, -inds1[2], lib)
    ELSE DRes([d4 EXCEPT !["_setup"][cur].col = FALSE], Done, None))

-----------------------------------------------------------------------------
(* The discretization model: one discretization on one worker, at its      *)
(* first iteration.                                                        *)

OutputDims == {2}

\* the lists, ints and None passed as inds
IndsInputs == {None, <<"int", 1>>, Some(<<0>>), Some(<<0, 1>>), Some(<<0, 0>>)}

DataDrivenIndsInputs == {None, Some(<<0>>), <<"int", 0>>}

\* what the steps that depend on the numbers held do
LibInputs == [{"rvs", "kde"} -> BOOLEAN]

InitDisc ==
    /\ size = 1
    /\ populated = {}
    /\ obj = [r \in Ranks |-> sample_set_init(1)]
    /\ last = NoCall
    /\ comp = None
    /\ heap = None
    /\ frame = None
    /\ \E dim \in OutputDims, values \in {None, Some(MaxN)},
          lam_ref \in {None, Some(1)} :
       \E Q_ref \in {None, Some(dim)},
          output_probability_set \in {None, Some(held_sample_set(dim))} :
         disc = discretization(
                    [held_sample_set(1) EXCEPT !["_reference_value"] = lam_ref],
                    [held_sample_set(dim) EXCEPT !["_values"] = values,
                                                 !["_reference_value"] = Q_ref],
                    output_probability_set)

DiscCall(op, arg, call) ==
    \E out \in {call} :
        /\ disc' = out.d
        /\ last' = [op |-> op, name |-> "", arg |-> Some(arg),
                    res |-> [r \in Ranks |-> out.res]]
        /\ UNCHANGED <<size, populated, obj, comp, heap, frame>>

SetIndices ==
    \E inds \in IndsInputs, iteration \in {None},
       pushforward \in BOOLEAN, lib \in LibInputs :
        DiscCall("set_indices",
                 [inds |-> inds, iteration |-> iteration,
                  pushforward |-> pushforward],
                 set_indices(disc, inds, iteration, pushforward, lib))

SetObservedDistribution ==
    \E dist \in {None, Some("norm")}, loc \in {None, Some(2)},
       scale \in {None}, lib \in LibInputs :
        DiscCall("set_observed_distribution", [iteration |-> None],
                 set_observed_distribution(disc, dist, None,
                                           [loc |-> loc, scale |-> scale], lib))

SetDataFromReference ==
    \E dist \in {None, norm(0)}, lib \in LibInputs :
        DiscCall("set_data_from_reference", [iteration |-> None],
                 set_data_from_reference(disc, None, dist, lib))

DataDriven ==
    \E inds \in DataDrivenIndsInputs, data \in {None, Some(1)},
       std \in {None, Some(0)}, lib \in LibInputs :
        DiscCall("data_driven", [inds |-> inds],
                 data_driven(disc, inds, data, std, lib))

NextDisc ==
    \/ SetIndices
    \/ SetObservedDistribution
    \/ SetDataFromReference
    \/ DataDriven

SpecDisc == InitDisc /\ [][NextDisc]_vars

-----------------------------------------------------------------------------
(* check_nums, set_input_sample_set, set_output_sample_set, clip and merge *)
(* of a discretization; a held sample set is known by its dimension and    *)
(* the number of its values.                                               *)

\* check_num of a held sample set on one worker
held_check_num(s) == IF IsNone(s["_values"]) THEN 0 ELSE Val(s["_values"])

\* discretization.check_nums
check_nums(d) ==
    LET out_num == held_check_num(d["_output_sample_set"])
        in_num == held_check_num(d["_input_sample_set"])
    IN
    IF out_num # in_num /\ ~IsNone(d["_output_sample_set"]["_values"])
       /\ ~IsNone(d["_input_sample_set"]["_values"])
    THEN DRes(d, Raise("length_not_matching"), None)
    ELSE DRes(d, Done, Some(in_num))

\* set_io_ptr(globalize=True): the output probability set answers a query
\* on the values of the output sample set
set_io_ptr(d) ==
    IF IsNone(d["_output_sample_set"]["_values"]) \/ IsNone(prob(d)["_values"])
    THEN DRes(d, Raise("ValueError"), None)
    ELSE DRes(d, Done, None)

\* discretization.__init__ with its checks (the output sample set is given)
discretization_init(input_sample_set, output_sample_set, output_probability_set, emulated_input_sample_set, emulated_output_sample_set) ==
    LET d == discretization(input_sample_set, output_sample_set,
                            output_probability_set)
               @@ [_emulated_input_sample_set |-> emulated_input_sample_set,
                   _emulated_output_sample_set |-> emulated_output_sample_set]
    IN
    IF check_nums(d).res.status # "ok" THEN DRes(d, check_nums(d).res, None)
    ELSE IF ~IsNone(output_probability_set) THEN set_io_ptr(d)
    ELSE DRes(d, Done, None)

\* set_input_sample_set(input_sample_set); None stands for an argument that
\* is not a sample set
set_input_sample_set(d, input_sample_set) ==
    IF IsNone(input_sample_set) THEN DRes(d, Raise("AttributeError"), None)
    ELSE DRes([d EXCEPT !["_input_sample_set"] = Val(input_sample_set)], Done, None)

\* set_output_sample_set(output_sample_set)
set_output_sample_set(d, output_sample_set) ==
    IF IsNone(output_sample_set) THEN DRes(d, Raise("AttributeError"), None)
    ELSE DRes([d EXCEPT !["_output_sample_set"] = Val(output_sample_set)], Done, None)

\* sample_set_base.clip(cnum) for cnum >= 1: the clipped copy, or the error
\* of set_kdtree on a copy without values
held_clip(s, cnum) ==
    IF IsNone(s["_values"]) THEN [obj |-> s, res |-> Raise("ValueError")]
    ELSE [obj |-> [s EXCEPT !["_values"] = Some(Min(cnum, Val(s["_values"])))],
          res |-> Done]

\* voronoi_sample_set.merge(sset): a new sample set holding the values of both
held_merge(s, sset) ==
    IF s["_dim"] # sset["_dim"] THEN [obj |-> s, res |-> Raise("dim_not_matching")]
    \* np.concatenate of a _values_local that is None
    ELSE IF IsNone(s["_values"]) \/ IsNone(sset["_values"])
    THEN [obj |-> s, res |-> Raise("ValueError")]
    ELSE [obj |-> [held_sample_set(s["_dim"]) EXCEPT
                      !["_values"] = Some(Val(s["_values"]) + Val(sset["_values"]))],
          res |-> Done]

\* discretization.clip(cnum): d is left as it is, ret is the discretization
\* returned
clip(d, cnum) ==
    LET ci == held_clip(d["_input_sample_set"], cnum)
        co == held_clip(d["_output_sample_set"], cnum)
    IN
    IF ci.res.status # "ok" THEN DRes(d, ci.res, None)
    ELSE IF co.res.status # "ok" THEN DRes(d, co.res, None)
    ELSE LET new == discretization_init(ci.obj, co.obj, d["_output_probability_set"],
                                        d["_emulated_input_sample_set"],
                                        d["_emulated_output_sample_set"])
         IN DRes(d, new.res, IF new.res.status = "ok" THEN Some(new.d) ELSE None)

\* discretization.merge(disc)
merge(d, other) ==
    LET mi == held_merge(d["_input_sample_set"], other["_input_sample_set"])
        mo == held_merge(d["_output_sample_set"], other["_output_sample_set"])
    IN
    IF mi.res.status # "ok" THEN DRes(d, mi.res, None)
    ELSE IF mo.res.status # "ok" THEN DRes(d, mo.res, None)
    \* None.merge(...)
    ELSE IF IsNone(d["_emulated_input_sample_set"])
            \/ IsNone(d["_emulated_output_sample_set"])
    THEN DRes(d, Raise("AttributeError"), None)
    \* disc._emulated_input_sample_set is None: sset._dim
    ELSE IF IsNone(other["_emulated_input_sample_set"])
            \/ IsNone(other["_emulated_output_sample_set"])
    THEN DRes(d, Raise("AttributeError"), None)
    ELSE
    LET mei == held_merge(Val(d["_emulated_input_sample_set"]),
                          Val(other["_emulated_input_sample_set"]))
        meo == held_merge(Val(d["_emulated_output_sample_set"]),
                          Val(other["_emulated_output_sample_set"]))
    IN
    IF mei.res.status # "ok" THEN DRes(d, mei.res, None)
    ELSE IF meo.res.status # "ok" THEN DRes(d, meo.res, None)
    ELSE LET new == discretization_init(mi.obj, mo.obj, d["_output_probability_set"],
                                        Some(mei.obj), Some(meo.obj))
         IN DRes(d, new.res, IF new.res.status = "ok" THEN Some(new.d) ELSE None)

-----------------------------------------------------------------------------
(* The pairing model: one discretization on one worker, its input and its  *)
(* output sample set replaced, clipped and merged; after a clip or a merge *)
(* the model follows the discretization that was returned.                 *)

\* largest number of values of a sample set of the pairing model
MaxCount == 4

\* a sample set of dimension dim with n values (no values for n = 0)
sized_sample_set(dim, n) ==
    [held_sample_set(dim) EXCEPT !["_values"] = IF n = 0 THEN None ELSE Some(n)]

\* the sample sets handed to the setters and to the constructor
PairSetInputs == {sized_sample_set(1, n) : n \in 0 .. 2}

\* the emulated sample sets of a discretization: none, or one point each
EmulatedPairInputs == {None, Some(sized_sample_set(1, 1))}

\* the discretizations that __init__ returns for these sample sets
Constructed ==
    {new.d : new \in {c \in {discretization_init(i, o, None, e, e) :
                                i \in PairSetInputs, o \in PairSetInputs,
                                e \in EmulatedPairInputs} :
                        c.res.status = "ok"}}

InitPair ==
    /\ size = 1
    /\ populated = {}
    /\ obj = [r \in Ranks |-> sample_set_init(1)]
    /\ last = NoCall
    /\ disc \in Constructed
    /\ comp = None
    /\ heap = None
    /\ frame = None

SetInputSampleSet ==
    \E s \in {None} \cup {Some(x) : x \in PairSetInputs} :
        DiscCall("set_input_sample_set", s, set_input_sample_set(disc, s))

SetOutputSampleSet ==
    \E s \in {None} \cup {Some(x) : x \in PairSetInputs} :
        DiscCall("set_output_sample_set", s, set_output_sample_set(disc, s))

\* the model goes on with the discretization a call returned
Returned(op, arg, call) ==
    \E out \in {call} :
        /\ disc' = IF out.res.status = "ok" THEN Val(out.ret) ELSE disc
        /\ last' = [op |-> op, name |-> "", arg |-> Some(arg),
                    res |-> [r \in Ranks |-> out.res]]
        /\ UNCHANGED <<size, populated, obj, comp, heap, frame>>

Clip ==
    \E cnum \in 1 .. 2 : Returned("clip", cnum, clip(disc, cnum))

Merge ==
    \E other \in Constructed :
        /\ held_check_num(disc["_input_sample_set"])
             + held_check_num(other["_input_sample_set"]) <= MaxCount
        /\ held_check_num(disc["_output_sample_set"])
             + held_check_num(other["_output_sample_set"]) <= MaxCount
        /\ \A n \in {"_emulated_input_sample_set", "_emulated_output_sample_set"} :
             IF IsNone(disc[n]) \/ IsNone(other[n]) THEN TRUE
             ELSE held_check_num(Val(disc[n])) + held_check_num(Val(other[n]))
                     <= MaxCount
        /\ Returned("merge", [in |-> other["_input_sample_set"]["_values"],
                              out |-> other["_output_sample_set"]["_values"]],
                    merge(disc, other))

NextPair ==
    \/ SetInputSampleSet
    \/ SetOutputSampleSet
    \/ Clip
    \/ Merge

SpecPair == InitPair /\ [][NextPair]_vars

-----------------------------------------------------------------------------
(* The iteration model: one discretization on one worker, its iteration    *)
(* index moved and its records written by iterate, set_iteration,          *)
(* iterate_by, tile_by, set_indices and data_driven.                       *)

\* the loop of iterate_by for a list of chunk sizes, from chunk i + 1 on
RECURSIVE iterate_by_list_loop(_, _, _, _, _)
iterate_by_list_loop(d, i, last_ind, breaks, lib) ==
    IF i >= Len(breaks) THEN DRes(d, Done, None)
    ELSE Then(set_indices(d, Some([j \in 1 .. breaks[i + 1] |-> (j - 1) + last_ind]),
                          Some(i), TRUE, lib),
              LAMBDA si :
         IF si.res.status # "ok" THEN si
         ELSE iterate_by_list_loop(si.d, i + 1, last_ind + breaks[i + 1], breaks, lib))

\* iterate_by(breaks) for a list of chunk sizes
iterate_by_list(d, breaks, lib) ==
    iterate_by_list_loop(d, 0, 0, breaks, lib)

\* largest iteration index of the iteration model
MaxIter == 2

\* output dimensions of the iteration model
IterDims == {2}

\* the steps that depend on the numbers held succeed
IterLibInputs == {[rvs |-> TRUE, kde |-> TRUE]}

\* a discretization as constructed: one default record, index 0
Fresh(d) ==
    /\ d["_iteration"] = 0
    /\ DOMAIN d["_setup"] = {0}
    /\ d["_setup"][0] = default_setup
    /\ IsNone(d["_output_sample_set"]["_distribution"])
    /\ IF IsNone(d["_output_probability_set"]) THEN TRUE
       ELSE /\ prob(d)["_dim"] = d["_output_sample_set"]["_dim"]
            /\ IsNone(prob(d)["_distribution"])

InitIter ==
    /\ size = 1
    /\ populated = {}
    /\ obj = [r \in Ranks |-> sample_set_init(1)]
    /\ last = NoCall
    /\ comp = None
    /\ heap = None
    /\ frame = None
    /\ \E dim \in IterDims, data \in {None, Some(1)} :
       \E output_probability_set \in
              {None, Some([held_sample_set(dim) EXCEPT !["_reference_value"] = data])} :
         disc = discretization(
                    held_sample_set(1),
                    [held_sample_set(dim) EXCEPT !["_values"] = Some(MaxN)],
                    output_probability_set)

\* a call whose outcome stays within the largest iteration index
IterCall(op, arg, call) ==
    \E out \in {call} :
        /\ out.d["_iteration"] <= MaxIter
        /\ \A k \in DOMAIN out.d["_setup"] : k <= MaxIter
        /\ disc' = out.d
        /\ last' = [op |-> op, name |-> "", arg |-> Some(arg),
                    res |-> [r \in Ranks |-> out.res]]
        /\ UNCHANGED <<size, populated, obj, comp, heap, frame>>

Iterate ==
    IterCall("iterate", [iteration |-> None], iterate(disc))

SetIteration ==
    \E iteration \in 0 .. MaxIter :
        IterCall("set_iteration", [iteration |-> Some(iteration)],
                 set_iteration(disc, iteration))

IterateBy ==
    \E breaks \in 1 .. 2, lib \in IterLibInputs :
        IterCall("iterate_by", [breaks |-> <<"int", breaks>>],
                 iterate_by(disc, breaks, lib))

IterateByList ==
    \E breaks \in {<<2>>, <<1, 1>>}, lib \in IterLibInputs :
        IterCall("iterate_by", [breaks |-> Some(breaks)],
                 iterate_by_list(disc, breaks, lib))

TileBy ==
    \E length \in 1 .. 2, lib \in IterLibInputs :
        IterCall("tile_by", [length |-> length], tile_by(disc, length, lib))

IterSetIndices ==
    \E inds \in {None, Some(<<0>>)}, pushforward \in BOOLEAN,
       lib \in IterLibInputs :
        IterCall("set_indices", [inds |-> inds, pushforward |-> pushforward],
                 set_indices(disc, inds, None, pushforward, lib))

IterDataDriven ==
    \E lib \in IterLibInputs :
        IterCall("data_driven", [inds |-> Some(<<0>>)],
                 data_driven(disc, Some(<<0>>), Some(1), Some(0), lib))

NextIter ==
    \/ Iterate
    \/ SetIteration
    \/ IterateBy
    \/ IterateByList
    \/ TileBy
    \/ IterSetIndices
    \/ IterDataDriven

SpecIter == InitIter /\ [][NextIter]_vars

-----------------------------------------------------------------------------
(* predicted_pdf and observed_pdf: the value returned is the list of the   *)
(* factors of the product, each with the distribution that was evaluated.  *)

\* the number of columns a distribution takes
dist_dim(dist) ==
    IF dist.kind = "gaussian_kde" THEN (IF dist.col THEN 1 ELSE Len(dist.inds))
    ELSE dist.plen

\* sample_set_base.pdf(x, dist) on a held sample set s, x with m columns:
\* the distribution evaluated, or the error
pdf(s, m, dist) ==
    LET used == IF IsNone(dist) THEN s["_distribution"] ELSE dist IN
    \* None.pdf
    IF IsNone(used) THEN [dist |-> used, res |-> Raise("AttributeError")]
    ELSE IF Val(used).kind = "gaussian_kde" /\ dist_dim(Val(used)) # m
    THEN [dist |-> used, res |-> Raise("ValueError")]
    ELSE IF Val(used).kind # "gaussian_kde" /\ ~broadcasts(dist_dim(Val(used)), m)
    THEN [dist |-> used, res |-> Raise("ValueError")]
    ELSE [dist |-> used, res |-> Done]

\* the loop of predicted_pdf, from iteration i on; out holds the factors
RECURSIVE predicted_pdf_loop(_, _, _, _, _)
predicted_pdf_loop(d, i, iteration, out, lib) ==
    IF i > iteration THEN DRes(d, Ok(out), Some(out))
    ELSE IF i \notin DOMAIN d["_setup"] THEN DRes(d, Raise("KeyError"), None)
    ELSE
    LET pre == d["_setup"][i].pre IN
    Then(format_output_data(d, Some(i), lib), LAMBDA data :
    IF data.res.status # "ok" THEN DRes(data.d, data.res, None)
    ELSE
    LET den == pdf(data.d["_output_sample_set"], Val(data.ret)[2], pre) IN
    IF den.res.status # "ok" THEN DRes(data.d, den.res, None)
    ELSE predicted_pdf_loop(data.d, i + 1, iteration,
                            Append(out, [iteration |-> i, dist |-> den.dist]), lib))

\* predicted_pdf(x=None, iteration)
predicted_pdf(d, iteration, lib) ==
    LET it == the_iteration(d, iteration) IN
    IF it \notin DOMAIN d["_setup"] THEN DRes(d, Raise("KeyError"), None)
    ELSE
    Then(IF IsNone(d["_setup"][it].pre) THEN compute_pushforward(d, Some(it), lib)
         ELSE DRes(d, Done, None),
         LAMBDA pushed :
    IF pushed.res.status # "ok" THEN DRes(pushed.d, pushed.res, None)
    ELSE
    Then(format_output_data(pushed.d, Some(it), lib), LAMBDA data :
    IF data.res.status # "ok" THEN DRes(data.d, data.res, None)
    ELSE predicted_pdf_loop(data.d, 0, it, <<>>, lib)))

\* the loop of observed_pdf, from iteration i on; out holds the factors
RECURSIVE observed_pdf_loop(_, _, _, _, _)
observed_pdf_loop(d, i, iteration, out, lib) ==
    IF i > iteration THEN DRes(d, Ok(out), Some(out))
    ELSE IF i \notin DOMAIN d["_setup"] THEN DRes(d, Raise("KeyError"), None)
    ELSE
    LET data_driven_status == d["_setup"][i].col
        \* norm(loc=0, scale=1) for the mode 'SWE'
        obs == IF data_driven_status THEN norm(0) ELSE d["_setup"][i].obs
        d1 == IF data_driven_status THEN [d EXCEPT !["_setup"][i].obs = None]
              ELSE d
    IN
    Then(format_output_data(d1, Some(i), lib), LAMBDA data :
    IF data.res.status # "ok" THEN DRes(data.d, data.res, None)
    ELSE
    LET den == pdf(prob(data.d), Val(data.ret)[2], obs) IN
    IF den.res.status # "ok" THEN DRes(data.d, den.res, None)
    ELSE observed_pdf_loop(data.d, i + 1, iteration,
                           Append(out, [iteration |-> i, dist |-> den.dist]), lib))

\* observed_pdf(x=None, iteration)
observed_pdf(d, iteration, lib) ==
    LET it == the_iteration(d, iteration) IN
    IF IsNone(d["_output_probability_set"])
    THEN DRes(d, Raise("AttributeError"), None)
    ELSE
    Then(IF IsNone(prob(d)["_distribution"])
         THEN set_observed_distribution(d, None, None,
                                        [loc |-> None, scale |-> None], lib)
         ELSE DRes(d, Done, None),
         LAMBDA set :
    IF set.res.status # "ok" THEN DRes(set.d, set.res, None)
    ELSE IF it \notin DOMAIN set.d["_setup"]
    THEN DRes(set.d, Raise("KeyError"), None)
    ELSE
    Then(format_output_data(set.d, Some(it), lib), LAMBDA data :
    IF data.res.status # "ok" THEN DRes(data.d, data.res, None)
    ELSE observed_pdf_loop(data.d, 0, it, <<>>, lib)))

-----------------------------------------------------------------------------
(* The density model: one discretization on one worker, its records        *)
(* written by set_indices, set_std, set_observed_distribution, data_driven *)
(* and iterate, its densities evaluated by predicted_pdf and observed_pdf. *)

\* largest iteration index of the density model
MaxPdfIter == 1

InitPdf ==
    /\ size = 1
    /\ populated = {}
    /\ obj = [r \in Ranks |-> sample_set_init(1)]
    /\ last = NoCall
    /\ comp = None
    /\ heap = None
    /\ frame = None
    /\ \E dim \in IterDims :
       \E output_probability_set \in
              {None, Some([held_sample_set(dim) EXCEPT !["_reference_value"] = Some(1)])} :
         disc = discretization(
                    held_sample_set(1),
                    [held_sample_set(dim) EXCEPT !["_values"] = Some(MaxN)],
                    output_probability_set)

\* a call whose outcome stays within the largest iteration index
PdfCall(op, arg, call) ==
    \E out \in {call} :
        /\ out.d["_iteration"] <= MaxPdfIter
        /\ disc' = out.d
        /\ last' = [op |-> op, name |-> "", arg |-> Some(arg),
                    res |-> [r \in Ranks |-> out.res]]
        /\ UNCHANGED <<size, populated, obj, comp, heap, frame>>

PdfIterate ==
    PdfCall("iterate", [iteration |-> None], iterate(disc))

PdfSetIndices ==
    \E inds \in {Some(<<0>>), Some(<<1>>)}, pushforward \in BOOLEAN,
       lib \in IterLibInputs :
        PdfCall("set_indices", [inds |-> inds, pushforward |-> pushforward],
                set_indices(disc, inds, None, pushforward, lib))

PdfSetStd ==
    \E std \in {None, Some(2)}, lib \in IterLibInputs :
        PdfCall("set_std", [std |-> std], set_std(disc, std, None, lib))

PdfSetObservedDistribution ==
    \E lib \in IterLibInputs :
        PdfCall("set_observed_distribution", [iteration |-> None],
                set_observed_distribution(disc, None, None,
                                          [loc |-> None, scale |-> None], lib))

PdfDataDriven ==
    \E lib \in IterLibInputs :
        PdfCall("data_driven", [inds |-> Some(<<0>>)],
                data_driven(disc, Some(<<0>>), Some(1), Some(0), lib))

PredictedPdf ==
    \E iteration \in {None, Some(0)}, lib \in IterLibInputs :
        PdfCall("predicted_pdf", [iteration |-> iteration],
                predicted_pdf(disc, iteration, lib))

ObservedPdf ==
    \E iteration \in {None, Some(0)}, lib \in IterLibInputs :
        PdfCall("observed_pdf", [iteration |-> iteration],
                observed_pdf(disc, iteration, lib))

NextPdf ==
    \/ PdfIterate
    \/ PdfSetIndices
    \/ PdfSetStd
    \/ PdfSetObservedDistribution
    \/ PdfDataDriven
    \/ PredictedPdf
    \/ ObservedPdf

SpecPdf == InitPdf /\ [][NextPdf]_vars

-----------------------------------------------------------------------------
(* compareP.comparison on one worker.  The sample sets a comparison holds   *)
(* are records of the attributes it reads and writes: values are lists of   *)
(* one-dimensional points, probabilities, volumes and densities are lists   *)
(* of fractions <<numerator, denominator>>; the attribute _density is None  *)
(* when the sample set does not have it.                                    *)

\* a sample set handed to a comparison
side_set(dim, domain, values, probabilities, volumes) ==
    [_dim |-> dim, _domain |-> domain, _values |-> values,
     _probabilities |-> probabilities, _volumes |-> volumes,
     _values_local |-> None, _probabilities_local |-> None,
     _volumes_local |-> None, _density |-> None, _emulated_density |-> None]

\* the outcome of a method of a comparison
CRes(c, res, ret) == [c |-> c, res |-> res, ret |-> ret]

\* np.allclose(a, b) on two domains: "True", "False", or the error raised
allclose(a, b) ==
    \* np.isfinite of None
    IF IsNone(a) \/ IsNone(b) THEN "TypeError"
    ELSE IF Len(Val(a)) # Len(Val(b)) /\ Len(Val(a)) # 1 /\ Len(Val(b)) # 1
    THEN "ValueError"
    ELSE LET n == Max(Len(Val(a)), Len(Val(b)))
             at(d, i) == IF Len(d) = 1 THEN d[1] ELSE d[i]
         IN IF \A i \in 1 .. n : at(Val(a), i) = at(Val(b), i) THEN "True"
            ELSE "False"

\* sample_set_base.set_domain(domain) on a held sample set
side_set_domain(s, domain) ==
    \* domain.shape of None
    IF IsNone(domain) THEN [obj |-> s, res |-> Raise("AttributeError")]
    ELSE IF Len(Val(domain)) # s["_dim"]
    THEN [obj |-> s, res |-> Raise("dim_not_matching")]
    ELSE [obj |-> [s EXCEPT !["_domain"] = domain], res |-> Done]

\* check_num of a held sample set
side_check_num(s) == IF IsNone(s["_values"]) THEN 0 ELSE Len(Val(s["_values"]))

\* the dimensions collected by __init__ and set_emulated_sample_set agree
output_dims_agree(c, emulated_sample_set) ==
    /\ IF IsNone(c["_sample_set_right"]) THEN TRUE
       ELSE Val(c["_sample_set_right"])["_dim"] = emulated_sample_set["_dim"]
    /\ IF IsNone(c["_sample_set_left"]) THEN TRUE
       ELSE Val(c["_sample_set_left"])["_dim"] = emulated_sample_set["_dim"]

\* comparison.__init__(emulated_sample_set, sample_set_left, sample_set_right)
\* with ptr_left = ptr_right = None
comparison(emulated_sample_set, sample_set_left, sample_set_right) ==
    LET c0 == [_sample_set_left |-> sample_set_left,
               _sample_set_right |-> None,
               _emulated_sample_set |-> emulated_sample_set,
               _ptr_left |-> None, _ptr_right |-> None,
               _ptr_left_local |-> None, _ptr_right_local |-> None,
               _domain |-> IF IsNone(sample_set_left) THEN None
                           ELSE Val(sample_set_left)["_domain"],
               _den_left |-> None, _den_right |-> None,
               _num_samples |-> None]
        c1 == [c0 EXCEPT !["_sample_set_right"] = sample_set_right]
        close == IF IsNone(sample_set_right) \/ IsNone(c0["_domain"]) THEN "True"
                 ELSE allclose(c0["_domain"], Val(sample_set_right)["_domain"])
        c2 == IF ~IsNone(sample_set_right) /\ IsNone(c0["_domain"])
              THEN [c1 EXCEPT !["_domain"] = Val(sample_set_right)["_domain"]]
              ELSE c1
        c3 == [c2 EXCEPT !["_num_samples"] = Some(side_check_num(emulated_sample_set))]
    IN
    IF close \in {"TypeError", "ValueError"} THEN CRes(c1, Raise(close), None)
    ELSE IF close = "False" THEN CRes(c1, Raise("domain_not_matching"), None)
    ELSE IF ~output_dims_agree(c3, emulated_sample_set)
    THEN CRes(c3, Raise("dim_not_matching"), None)
    ELSE IF ~IsNone(emulated_sample_set["_domain"]) THEN CRes(c3, Done, None)
    ELSE IF IsNone(sample_set_left) /\ IsNone(sample_set_right)
    THEN CRes(c3, Raise("AttributeError"), None)
    ELSE LET set == side_set_domain(emulated_sample_set, c3["_domain"]) IN
         CRes([c3 EXCEPT !["_emulated_sample_set"] = set.obj], set.res, None)

\* the domain check that ends set_sample_set_left and set_sample_set_right
match_emulated_domain(c, sample_set) ==
    LET em == c["_emulated_sample_set"] IN
    IF IsNone(em["_domain"])
    THEN LET set == side_set_domain(em, sample_set["_domain"]) IN
         CRes([c EXCEPT !["_emulated_sample_set"] = set.obj], set.res, None)
    ELSE LET close == allclose(em["_domain"], sample_set["_domain"]) IN
         IF close \in {"TypeError", "ValueError"} THEN CRes(c, Raise(close), None)
         ELSE IF close = "False" THEN CRes(c, Raise("domain_not_matching"), None)
         ELSE CRes(c, Done, None)

\* set_sample_set_left(sample_set); None stands for an argument that is
\* neither a sample set nor a discretization
set_sample_set_left(c, sample_set) ==
    IF IsNone(sample_set) THEN CRes(c, Raise("TypeError"), None)
    ELSE match_emulated_domain(
             [c EXCEPT !["_sample_set_left"] = sample_set,
                       !["_ptr_left"] = None,
                       !["_ptr_left_local"] = None,
                       !["_den_left"] = None],
             Val(sample_set))

\* set_sample_set_right(sample_set)
set_sample_set_right(c, sample_set) ==
    IF IsNone(sample_set) THEN CRes(c, Raise("TypeError"), None)
    ELSE match_emulated_domain(
             [c EXCEPT !["_sample_set_right"] = sample_set,
                       !["_ptr_right"] = None,
                       !["_ptr_right_local"] = None,
                       !["_den_right"] = None],
             Val(sample_set))

\* self._sample_set_left._emulated_density = None, and the same on the right
forget_emulated_density(c) ==
    [c EXCEPT !["_sample_set_left"] =
                  IF IsNone(@) THEN @
                  ELSE Some([Val(@) EXCEPT !["_emulated_density"] = None]),
              !["_sample_set_right"] =
                  IF IsNone(@) THEN @
                  ELSE Some([Val(@) EXCEPT !["_emulated_density"] = None])]

\* set_emulated_sample_set(emulated_sample_set)
set_emulated_sample_set(c, emulated_sample_set) ==
    IF IsNone(emulated_sample_set) THEN CRes(c, Raise("AttributeError"), None)
    ELSE IF ~output_dims_agree(c, Val(emulated_sample_set))
    THEN CRes(c, Raise("dim_not_matching"), None)
    ELSE CRes(forget_emulated_density(
                  [c EXCEPT !["_emulated_sample_set"] = Val(emulated_sample_set)]),
              Done, None)

-----------------------------------------------------------------------------
(* The domain model: one comparison, its three sample sets given to the    *)
(* constructor and replaced by set_left, set_right and set_emulated.       *)

\* the domains of the sample sets of the domain model
DomainChoices == {None, Some(<<<<0, 4>>>>), Some(<<<<0, 8>>>>)}

\* the sample sets handed to a comparison in the domain model
DomainSets ==
    {side_set(1, domain, Some(<<1, 3>>), None, None) : domain \in DomainChoices}
    \cup {side_set(2, Some(<<<<0, 4>>, <<0, 4>>>>), None, None, None)}

\* a call on the comparison; a constructor that raises leaves no comparison
CompCall(op, arg, call) ==
    \E out \in {call} :
        /\ comp' = IF op = "__init__" /\ out.res.status # "ok" THEN None
                   ELSE Some(out.c)
        /\ last' = [op |-> op, name |-> "", arg |-> Some(arg),
                    res |-> [r \in Ranks |->
                                IF out.res.status = "ok" /\ ~IsNone(out.ret)
                                THEN Ok(Val(out.ret)) ELSE out.res]]
        /\ UNCHANGED <<size, populated, obj, disc, heap, frame>>

InitDomain ==
    /\ size = 1
    /\ populated = {}
    /\ obj = [r \in Ranks |-> sample_set_init(1)]
    /\ last = NoCall
    /\ disc = None
    /\ comp = None
    /\ heap = None
    /\ frame = None

Construct ==
    \E em \in DomainSets, left \in {None} \cup {Some(x) : x \in DomainSets},
       right \in {None} \cup {Some(x) : x \in DomainSets} :
        CompCall("__init__", [em |-> em["_domain"]], comparison(em, left, right))

SetLeft ==
    /\ ~IsNone(comp)
    /\ \E s \in {None} \cup {Some(x) : x \in DomainSets} :
         CompCall("set_left", s, set_sample_set_left(Val(comp), s))

SetRight ==
    /\ ~IsNone(comp)
    /\ \E s \in {None} \cup {Some(x) : x \in DomainSets} :
         CompCall("set_right", s, set_sample_set_right(Val(comp), s))

SetEmulated ==
    /\ ~IsNone(comp)
    /\ \E s \in {None} \cup {Some(x) : x \in DomainSets} :
         CompCall("set_emulated", s, set_emulated_sample_set(Val(comp), s))

NextDomain ==
    \/ Construct
    \/ SetLeft
    \/ SetRight
    \/ SetEmulated

SpecDomain == InitDomain /\ [][NextDomain]_vars

-----------------------------------------------------------------------------
(* Floating-point numbers of the comparison: a number is the fraction       *)
(* <<numerator, denominator>> in lowest terms with a positive denominator;  *)
(* <<1, 0>> and <<-1, 0>> are inf and -inf and <<0, 0>> is nan, as numpy    *)
(* produces them for x / 0 and 0 / 0.                                       *)

\* the greatest common divisor of two naturals
RECURSIVE gcd(_, _)
gcd(a, b) == IF b = 0 THEN a ELSE gcd(b, a % b)

\* the sign of an integer
sign(n) == IF n > 0 THEN 1 ELSE IF n < 0 THEN -1 ELSE 0

\* the number n / d
frac(n, d) ==
    IF d = 0 THEN <<sign(n), 0>>
    ELSE LET g == gcd(Abs(n), Abs(d)) IN
         <<sign(d) * sign(n) * (Abs(n) \div g), Abs(d) \div g>>

\* a + b
fadd(a, b) ==
    IF a[2] = 0 /\ b[2] = 0 /\ a[1] = b[1] THEN a
    ELSE frac(a[1] * b[2] + b[1] * a[2], a[2] * b[2])

\* a - b
fsub(a, b) == fadd(a, <<-b[1], b[2]>>)

\* a * b
fmul(a, b) == frac(a[1] * b[1], a[2] * b[2])

\* a / b (np.divide: x / 0 is inf, 0 / 0 is nan)
fdiv(a, b) == frac(a[1] * b[2], a[2] * b[1])

\* abs(a)
fabs(a) == <<Abs(a[1]), a[2]>>

\* the integer square root of a natural
RECURSIVE isqrt(_)
isqrt(x) ==
    IF x < 2 THEN x
    ELSE LET s == 2 * isqrt(x \div 4) IN
         IF (s + 1) * (s + 1) <= x THEN s + 1 ELSE s

\* the steps per unit of the grid square roots are rounded to
SqrtScale == 100

\* np.sqrt(a), rounded down to the grid; exact on squares of grid numbers
sqrt(a) ==
    IF a[2] = 0 THEN (IF a[1] < 0 THEN <<0, 0>> ELSE a)
    ELSE IF a[1] < 0 THEN <<0, 0>>
    ELSE frac(isqrt((a[1] * SqrtScale * SqrtScale) \div a[2]), SqrtScale)

\* the sum of the numbers of an array
RECURSIVE fsum(_, _)
fsum(a, n) == IF n = 0 THEN <<0, 1>> ELSE fadd(fsum(a, n - 1), a[n])

\* array[ptr] with an array of 0-based indices
take(array, ptr) == [i \in 1 .. Len(ptr) |-> array[ptr[i] + 1]]

\* scipy.spatial.distance.minkowski(u, v, p, w) for p = 1 and p = 2 with
\* the weight w on every coordinate
minkowski(u, v, p, w) ==
    IF Len(u) # Len(v) THEN [res |-> Raise("ValueError"), dist |-> <<0, 0>>]
    ELSE IF p = 1
    THEN [res |-> Done,
          dist |-> fsum([i \in 1 .. Len(u) |-> fmul(w, fabs(fsub(u[i], v[i])))],
                        Len(u))]
    ELSE [res |-> Done,
          dist |-> sqrt(fsum([i \in 1 .. Len(u) |->
                                 fmul(w, fmul(fsub(u[i], v[i]), fsub(u[i], v[i])))],
                             Len(u)))]

\* scipy.spatial.distance.sqeuclidean(u, v)
sqeuclidean(u, v) ==
    IF Len(u) # Len(v) THEN [res |-> Raise("ValueError"), dist |-> <<0, 0>>]
    ELSE [res |-> Done,
          dist |-> fsum([i \in 1 .. Len(u) |->
                            fmul(fsub(u[i], v[i]), fsub(u[i], v[i]))], Len(u))]

-----------------------------------------------------------------------------
(* Densities and values of a comparison.  A method that queries a k-d tree  *)
(* has one outcome for every answer the tree can give.                      *)

\* sample_set_base.global_to_local of a held sample set on one worker
side_global_to_local(s) ==
    [s EXCEPT !["_values_local"] = IF IsNone(s["_values"]) THEN @ ELSE s["_values"],
              !["_probabilities_local"] =
                  IF IsNone(s["_probabilities"]) THEN @ ELSE s["_probabilities"],
              !["_volumes_local"] = IF IsNone(s["_volumes"]) THEN @ ELSE s["_volumes"]]

\* sample_set_base.local_to_global of a held sample set on one worker
side_local_to_global(s) ==
    [s EXCEPT !["_values"] = IF IsNone(s["_values_local"]) THEN @ ELSE s["_values_local"],
              !["_probabilities"] =
                  IF IsNone(s["_probabilities_local"]) THEN @
                  ELSE s["_probabilities_local"],
              !["_volumes"] = IF IsNone(s["_volumes_local"]) THEN @ ELSE s["_volumes_local"]]

\* estimate_volume_mc() of a held sample set
side_estimate_volume_mc(s) ==
    side_global_to_local(
        [s EXCEPT !["_volumes"] =
            Some([i \in 1 .. side_check_num(s) |-> frac(1, side_check_num(s))])])

\* density(sample_set, ptr): ptr is None or Some array of indices; the
\* attribute _density is None when the sample set does not have it
density(sample_set, ptr) ==
    IF ~IsNone(sample_set["_density"])
    THEN LET den == IF IsNone(ptr) THEN Val(sample_set["_density"])
                    ELSE take(Val(sample_set["_density"]), Val(ptr))
             s1 == [sample_set EXCEPT !["_emulated_density"] = Some(den)]
         IN
         IF IsNone(ptr)
         THEN [obj |-> side_local_to_global([s1 EXCEPT !["_density"] = Some(den)]),
               res |-> Done]
         \* sample_set._probabilities[ptr] of None
         ELSE IF IsNone(sample_set["_probabilities"])
         THEN [obj |-> s1, res |-> Raise("TypeError")]
         ELSE [obj |-> side_local_to_global(s1), res |-> Done]
    ELSE IF IsNone(sample_set["_probabilities"])
    THEN [obj |-> sample_set, res |-> Raise("AttributeError")]
    ELSE IF IsNone(sample_set["_volumes"])
    THEN [obj |-> sample_set, res |-> Raise("AttributeError")]
    ELSE LET s0 == IF IsNone(sample_set["_probabilities_local"])
                   THEN side_global_to_local(sample_set) ELSE sample_set
             p == IF IsNone(ptr) THEN Val(s0["_probabilities"])
                  ELSE take(Val(s0["_probabilities"]), Val(ptr))
             v == IF IsNone(ptr) THEN Val(s0["_volumes"])
                  ELSE take(Val(s0["_volumes"]), Val(ptr))
             den == [i \in 1 .. Len(p) |-> fdiv(p[i], v[i])]
             s1 == [s0 EXCEPT !["_emulated_density"] = Some(den)]
         IN
         [obj |-> side_local_to_global(
                      IF IsNone(ptr) THEN [s1 EXCEPT !["_density"] = Some(den)]
                      ELSE s1),
          res |-> Done]

\* self._sample_set_left.query(x): the pointers the k-d tree of the sample
\* set can answer with, one index for every point of x
side_query(s, x) ==
    LET data == [i \in 1 .. Len(Val(s["_values"])) |-> <<Val(s["_values"])[i]>>] IN
    {ptr \in [1 .. Len(x) -> 0 .. (Len(data) - 1)] :
        \A i \in 1 .. Len(x) : ptr[i] \in kd_nearest(data, <<x[i]>>)}

\* set_ptr_left(): the possible outcomes
set_ptr_left(c) ==
    LET em == IF IsNone(c["_emulated_sample_set"]["_values_local"])
              THEN side_global_to_local(c["_emulated_sample_set"])
              ELSE c["_emulated_sample_set"]
        c1 == [c EXCEPT !["_emulated_sample_set"] = em]
    IN
    \* self._sample_set_left.query of None
    IF IsNone(c["_sample_set_left"]) THEN {CRes(c1, Raise("AttributeError"), None)}
    ELSE {CRes([c1 EXCEPT !["_ptr_left_local"] = Some(ptr),
                          !["_ptr_left"] = Some(ptr)], Done, None) :
            ptr \in side_query(Val(c["_sample_set_left"]), Val(em["_values_local"]))}

\* set_ptr_right(): the possible outcomes
set_ptr_right(c) ==
    LET em == IF IsNone(c["_emulated_sample_set"]["_values_local"])
              THEN side_global_to_local(c["_emulated_sample_set"])
              ELSE c["_emulated_sample_set"]
        c1 == [c EXCEPT !["_emulated_sample_set"] = em]
    IN
    IF IsNone(c["_sample_set_right"]) THEN {CRes(c1, Raise("AttributeError"), None)}
    ELSE {CRes([c1 EXCEPT !["_ptr_right_local"] = Some(ptr),
                          !["_ptr_right"] = Some(ptr)], Done, None) :
            ptr \in side_query(Val(c["_sample_set_right"]), Val(em["_values_local"]))}

\* the part of estimate_density_left after the pointer is there
density_left(c) ==
    IF IsNone(c["_sample_set_left"]) THEN CRes(c, Raise("AttributeError"), None)
    ELSE LET out == density(Val(c["_sample_set_left"]), c["_ptr_left_local"])
             c1 == [c EXCEPT !["_sample_set_left"] = Some(out.obj)]
         IN
         IF out.res.status # "ok" THEN CRes(c1, out.res, None)
         ELSE CRes([c1 EXCEPT !["_den_left"] = out.obj["_emulated_density"]],
                   Done, out.obj["_emulated_density"])

\* the part of estimate_density_right after the pointer is there
density_right(c) ==
    IF IsNone(c["_sample_set_right"]) THEN CRes(c, Raise("AttributeError"), None)
    ELSE LET out == density(Val(c["_sample_set_right"]), c["_ptr_right_local"])
             c1 == [c EXCEPT !["_sample_set_right"] = Some(out.obj)]
         IN
         IF out.res.status # "ok" THEN CRes(c1, out.res, None)
         ELSE CRes([c1 EXCEPT !["_den_right"] = out.obj["_emulated_density"]],
                   Done, out.obj["_emulated_density"])

\* estimate_density_left(): the possible outcomes
estimate_density_left(c) ==
    IF ~IsNone(c["_ptr_left_local"]) THEN {density_left(c)}
    ELSE {IF set.res.status # "ok" THEN set ELSE density_left(set.c) :
            set \in set_ptr_left(c)}

\* estimate_density_right(): the possible outcomes
estimate_density_right(c) ==
    IF ~IsNone(c["_ptr_right_local"]) THEN {density_right(c)}
    ELSE {IF set.res.status # "ok" THEN set ELSE density_right(set.c) :
            set \in set_ptr_right(c)}

\* comparison.global_to_local()
comparison_global_to_local(c) ==
    [c EXCEPT !["_sample_set_left"] =
                  IF IsNone(@) THEN @ ELSE Some(side_global_to_local(Val(@))),
              !["_sample_set_right"] =
                  IF IsNone(@) THEN @ ELSE Some(side_global_to_local(Val(@))),
              !["_emulated_sample_set"] = side_global_to_local(@)]

\* comparison.local_to_global()
comparison_local_to_global(c) ==
    [c EXCEPT !["_sample_set_left"] =
                  IF IsNone(@) THEN @ ELSE Some(side_local_to_global(Val(@))),
              !["_sample_set_right"] =
                  IF IsNone(@) THEN @ ELSE Some(side_local_to_global(Val(@))),
              !["_emulated_sample_set"] = side_local_to_global(@)]

\* set_left_probabilities(probabilities)
set_left_probabilities(c, probabilities) ==
    \* self.get_left().check_num() of None
    IF IsNone(c["_sample_set_left"]) THEN CRes(c, Raise("AttributeError"), None)
    ELSE IF side_check_num(Val(c["_sample_set_left"])) # Len(probabilities)
    THEN CRes(c, Raise("AttributeError"), None)
    ELSE CRes([c EXCEPT !["_sample_set_left"] =
                            Some([side_global_to_local(
                                      [Val(@) EXCEPT !["_probabilities"] =
                                                         Some(probabilities)])
                                  EXCEPT !["_emulated_density"] = None]),
                        !["_den_left"] = None],
              Done, None)

\* set_right_probabilities(probabilities)
set_right_probabilities(c, probabilities) ==
    IF IsNone(c["_sample_set_right"]) THEN CRes(c, Raise("AttributeError"), None)
    ELSE IF side_check_num(Val(c["_sample_set_right"])) # Len(probabilities)
    THEN CRes(c, Raise("AttributeError"), None)
    ELSE CRes([c EXCEPT !["_sample_set_right"] =
                            Some([side_global_to_local(
                                      [Val(@) EXCEPT !["_probabilities"] =
                                                         Some(probabilities)])
                                  EXCEPT !["_emulated_density"] = None]),
                        !["_den_right"] = None],
              Done, None)

\* check_domain()
check_domain(c) ==
    IF IsNone(c["_sample_set_left"]) \/ IsNone(c["_sample_set_right"])
    THEN CRes(c, Raise("AttributeError"), None)
    ELSE LET left_set == Val(c["_sample_set_left"])
             right_set == Val(c["_sample_set_right"])
         IN
         IF IsNone(left_set["_domain"]) \/ IsNone(right_set["_domain"])
         THEN CRes(c, Raise("domain_not_matching"), None)
         ELSE IF allclose(left_set["_domain"], right_set["_domain"]) # "True"
         THEN CRes(c, Raise(IF allclose(left_set["_domain"], right_set["_domain"])
                                 = "False"
                            THEN "domain_not_matching"
                            ELSE allclose(left_set["_domain"], right_set["_domain"])),
                   None)
         ELSE LET close == allclose(c["_emulated_sample_set"]["_domain"],
                                    left_set["_domain"])
              IN
              IF close = "False" THEN CRes(c, Raise("domain_not_matching"), None)
              ELSE IF close # "True" THEN CRes(c, Raise(close), None)
              ELSE CRes([c EXCEPT !["_domain"] = left_set["_domain"]], Done, None)

\* check_dim() where both sample sets are held
check_dim(c) ==
    IF Val(c["_sample_set_left"])["_dim"] # Val(c["_sample_set_right"])["_dim"]
    THEN Raise("dim_not_matching")
    ELSE IF ~IsNone(c["_ptr_left"]) /\ ~IsNone(c["_ptr_right"])
            /\ Len(Val(c["_ptr_left"])) # Len(Val(c["_ptr_right"]))
    THEN Raise("dim_not_matching")
    ELSE Done

\* the part of estimate_density after the pointers are there
estimate_density_tail(c) ==
    IF check_dim(c).status # "ok" THEN CRes(c, check_dim(c), None)
    ELSE LET mc(s) == IF IsNone(s["_volumes"]) THEN side_estimate_volume_mc(s)
                      ELSE s
             c1 == [c EXCEPT !["_sample_set_left"] = Some(mc(Val(@))),
                             !["_sample_set_right"] = Some(mc(Val(@)))]
             left == density_left(c1)
             right == density_right(left.c)
         IN
         IF left.res.status # "ok" THEN left
         ELSE IF right.res.status # "ok" THEN right
         ELSE CRes(comparison_local_to_global(right.c), Done,
                   Some(<<Val(right.c["_den_left"]), Val(right.c["_den_right"])>>))

\* estimate_density() with globalize = True and no emulated sample set
\* passed: the possible outcomes
estimate_density(c) ==
    LET checked == check_domain(comparison_global_to_local(c))
        lefts == IF ~IsNone(checked.c["_ptr_left_local"]) THEN {checked}
                 ELSE set_ptr_left(checked.c)
        rights(l) == IF ~IsNone(l.c["_ptr_right_local"]) THEN {l}
                     ELSE set_ptr_right(l.c)
    IN
    IF checked.res.status # "ok" THEN {checked}
    ELSE UNION {{IF r.res.status # "ok" THEN r ELSE estimate_density_tail(r.c) :
                    r \in rights(l)} : l \in lefts}

\* the functionals a caller supplies to value
Callables == {"dot"}

\* functional(left_den, right_den) of a caller-supplied functional: the
\* inner product of the two arrays
apply_functional(functional, left_den, right_den) ==
    IF Len(left_den) # Len(right_den)
    THEN [res |-> Raise("ValueError"), dist |-> <<0, 0>>]
    ELSE [res |-> Done,
          dist |-> fsum([i \in 1 .. Len(left_den) |->
                            fmul(left_den[i], right_den[i])], Len(left_den))]

\* a mutation of distance: the right density is measured against nothing
distance_left_only(functional, left_den, right_den) ==
    minkowski(left_den, [i \in 1 .. Len(right_den) |-> <<0, 1>>], 1, <<1, 2>>)

\* the distance value computes from the two densities, before the division
distance(functional, left_den, right_den) ==
    IF functional \in {"tv", "totvar", "total variation", "total-variation", "1"}
    THEN minkowski(left_den, right_den, 1, <<1, 2>>)
    ELSE IF functional \in {"mink", "minkowski", "norm", "euclidean", "2-norm", "2"}
    THEN minkowski(left_den, right_den, 2, <<1, 1>>)
    ELSE IF functional \in {"sqhell", "sqhellinger", "hell", "hellinger"}
    THEN LET d == sqeuclidean([i \in 1 .. Len(left_den) |-> sqrt(left_den[i])],
                              [i \in 1 .. Len(right_den) |-> sqrt(right_den[i])])
         IN [res |-> d.res, dist |-> fdiv(d.dist, <<2, 1>>)]
    ELSE apply_functional(functional, left_den, right_den)

\* the part of value after both densities are there
value_tail(c, functional) ==
    LET d == distance(functional, Val(c["_den_left"]), Val(c["_den_right"]))
        n == <<side_check_num(c["_emulated_sample_set"]), 1>>
    IN
    IF d.res.status # "ok" THEN CRes(c, d.res, None)
    ELSE IF functional \in {"hell", "hellinger"}
    THEN CRes(c, Done, Some(sqrt(fdiv(d.dist, n))))
    ELSE CRes(c, Done, Some(fdiv(d.dist, n)))

\* value(functional): the possible outcomes
value(c, functional) ==
    LET lefts == IF ~IsNone(c["_den_left"]) THEN {CRes(c, Done, None)}
                 ELSE estimate_density_left(c)
        rights(l) == IF ~IsNone(l.c["_den_right"]) THEN {l}
                     ELSE estimate_density_right(l.c)
    IN
    UNION {IF l.res.status # "ok" THEN {l}
           ELSE {IF r.res.status # "ok" THEN r ELSE value_tail(r.c, functional) :
                    r \in rights(l)} : l \in lefts}

\* sample_set_base.copy() of a held sample set: the arrays are copied, the
\* attributes density() added are not
side_copy(s) == [s EXCEPT !["_density"] = None, !["_emulated_density"] = None]

-----------------------------------------------------------------------------
(* The density model: one comparison of two sample sets of two samples at   *)
(* 1 and 3 in the domain [0, 4], the emulation points nearer to one of the  *)
(* two samples than to the other.                                           *)

\* the probabilities handed to the sample sets and to the comparison
ProbInputs == {<<<<1, 2>>, <<1, 2>>>>, <<<<1, 1>>, <<0, 1>>>>}

\* the volumes of the sample sets
VolInputs == {<<<<1, 2>>, <<1, 2>>>>, <<<<0, 1>>, <<1, 1>>>>}

\* the sample sets compared
DenSets ==
    {side_set(1, Some(<<<<0, 4>>>>), Some(<<1, 3>>), p, v) :
        p \in {Some(x) : x \in ProbInputs}, v \in {Some(x) : x \in VolInputs}}

\* the emulation sets
EmSets ==
    {side_set(1, Some(<<<<0, 4>>>>), Some(values), None, None) :
        values \in {<<0, 4>>, <<4, 1, 0>>}}

\* the functionals handed to value
Functionals == {"tv", "mink", "norm", "euclidean", "sqhell", "hell"} \cup Callables

InitDen ==
    /\ size = 1
    /\ populated = {}
    /\ obj = [r \in Ranks |-> sample_set_init(1)]
    /\ last = NoCall
    /\ disc = None
    /\ comp = None
    /\ heap = None
    /\ frame = None

\* the left and the right sample set of the density model
DenLeft == side_set(1, Some(<<<<0, 4>>>>), Some(<<1, 3>>),
                    Some(<<<<1, 2>>, <<1, 2>>>>), Some(<<<<1, 2>>, <<1, 2>>>>))

DenRight == side_set(1, Some(<<<<0, 4>>>>), Some(<<1, 3>>),
                     Some(<<<<1, 1>>, <<0, 1>>>>), Some(<<<<1, 2>>, <<1, 2>>>>))

DenConstruct ==
    /\ IsNone(comp)
    /\ \E em \in EmSets :
         CompCall("__init__", <<>>, comparison(em, Some(DenLeft), Some(DenRight)))

SetLeftProbabilities ==
    /\ ~IsNone(comp)
    /\ \E p \in ProbInputs \cup {<<<<1, 1>>>>} :
         CompCall("set_left_probabilities", p, set_left_probabilities(Val(comp), p))

SetRightProbabilities ==
    /\ ~IsNone(comp)
    /\ \E p \in ProbInputs \cup {<<<<1, 1>>>>} :
         CompCall("set_right_probabilities", p, set_right_probabilities(Val(comp), p))

DenSetEmulated ==
    /\ ~IsNone(comp)
    /\ \E em \in EmSets :
         CompCall("set_emulated", em["_values"],
                  set_emulated_sample_set(Val(comp), Some(em)))

\* density(comparison.get_left()) and density(comparison.get_right()),
\* called by the owner of the sample sets
Density ==
    /\ ~IsNone(comp)
    /\ \E side \in {"_sample_set_left", "_sample_set_right"} :
         \E out \in {density(Val(Val(comp)[side]), None)} :
             CompCall("density", side,
                      CRes([Val(comp) EXCEPT ![side] = Some(out.obj)],
                           out.res, None))

EstimateDensityLeft ==
    /\ ~IsNone(comp)
    /\ \E out \in estimate_density_left(Val(comp)) :
         CompCall("estimate_density_left", <<>>, out)

EstimateDensityRight ==
    /\ ~IsNone(comp)
    /\ \E out \in estimate_density_right(Val(comp)) :
         CompCall("estimate_density_right", <<>>, out)

EstimateDensity ==
    /\ ~IsNone(comp)
    /\ \E out \in estimate_density(Val(comp)) :
         CompCall("estimate_density", <<>>, out)

Value ==
    /\ ~IsNone(comp)
    /\ \E functional \in Functionals :
         \E out \in value(Val(comp), functional) :
             CompCall("value", functional, out)

NextDen ==
    \/ DenConstruct
    \/ SetLeftProbabilities
    \/ SetRightProbabilities
    \/ DenSetEmulated
    \/ Density
    \/ Value

SpecDen == InitDen /\ [][NextDen]_vars

-----------------------------------------------------------------------------
(* The value model: a comparison of two sample sets, either of which may    *)
(* lack its probabilities or its volumes, is built once and evaluated.      *)

\* the sample sets compared in the value model
ValSets ==
    {side_set(1, Some(<<<<0, 4>>>>), Some(<<1, 3>>), p, v) :
        p \in {None} \cup {Some(x) : x \in ProbInputs},
        v \in {None} \cup {Some(x) : x \in VolInputs}}

ValConstruct ==
    /\ IsNone(comp)
    /\ \E em \in EmSets, left \in ValSets, right \in ValSets :
         CompCall("__init__", <<>>, comparison(em, Some(left), Some(right)))

NextValue ==
    \/ ValConstruct
    \/ EstimateDensityLeft
    \/ EstimateDensityRight
    \/ EstimateDensity
    \/ Value

SpecValue == InitDen /\ [][NextValue]_vars

-----------------------------------------------------------------------------
(* The copy model: a sample set with probabilities and volumes, evaluated   *)
(* by density() or not, is compared with its copy.                          *)

\* the sample sets copied
CopySets == DenSets \cup {density(s, None).obj : s \in DenSets}

CopyConstruct ==
    /\ IsNone(comp)
    /\ \E em \in EmSets, s \in CopySets :
         CompCall("__init__", <<>>, comparison(em, Some(s), Some(side_copy(s))))

NextCopy ==
    \/ CopyConstruct
    \/ Density
    \/ EstimateDensity
    \/ Value

SpecCopy == InitDen /\ [][NextCopy]_vars

-----------------------------------------------------------------------------
(* Ownership of arrays on one worker.  heap.bufs are the memory buffers of  *)
(* the numpy arrays, heap.sets the sample set objects; an attribute of a    *)
(* sample set is None or Some array [buf |-> b, len |-> n], the first n     *)
(* entries of buffer b.  A slice and a part given by np.array_split are     *)
(* views: arrays on the buffer of the array they were taken from.           *)

\* the array attributes of a sample set, in the order copy walks them:
\* all_ndarray_names and then vector_names
CopiedNames ==
    <<"_values", "_values_local", "_domain", "_probabilities",
      "_probabilities_local", "_volumes", "_volumes_local">>

\* array_names, the global arrays with a local twin
SplitNames == <<"_values", "_volumes", "_probabilities">>

\* sample_set_base.__init__(dim)
heap_sample_set(dim) ==
    [_dim |-> dim, _values |-> None, _values_local |-> None, _domain |-> None,
     _probabilities |-> None, _probabilities_local |-> None,
     _volumes |-> None, _volumes_local |-> None]

\* the entries of an array
contents(h, array) == SubSeq(h.bufs[array.buf], 1, array.len)

\* a new array with the given entries, stored in the attribute name of set s
store_new(h, s, name, entries) ==
    [bufs |-> Append(h.bufs, entries),
     sets |-> [h.sets EXCEPT ![s][name] =
                  Some([buf |-> Len(h.bufs) + 1, len |-> Len(entries)])]]

\* a new sample set object
new_set(h, dim) == [h EXCEPT !.sets = Append(@, heap_sample_set(dim))]

\* the loop of copy: setattr(my_copy, name, np.copy(getattr(self, name)))
RECURSIVE copy_loop(_, _, _, _)
copy_loop(h, self, my_copy, k) ==
    IF k > Len(CopiedNames) THEN h
    ELSE LET name == CopiedNames[k] IN
         IF IsNone(h.sets[self][name]) THEN copy_loop(h, self, my_copy, k + 1)
         ELSE copy_loop(store_new(h, my_copy, name,
                                  contents(h, Val(h.sets[self][name]))),
                        self, my_copy, k + 1)

\* sample_set_base.copy(): the heap with the copy as its last sample set
heap_copy(h, self) ==
    copy_loop(new_set(h, h.sets[self]["_dim"]), self, Len(h.sets) + 1, 1)

\* the loop of global_to_local: the local twin is np.array_split(array, 1)[0]
RECURSIVE split_loop(_, _, _)
split_loop(h, self, k) ==
    IF k > Len(SplitNames) THEN h
    ELSE split_loop(
             IF IsNone(h.sets[self][SplitNames[k]]) THEN h
             ELSE [h EXCEPT !.sets[self][SplitNames[k] \o "_local"] =
                                h.sets[self][SplitNames[k]]],
             self, k + 1)

\* sample_set_base.global_to_local() on the only worker
heap_global_to_local(h, self) == split_loop(h, self, 1)

\* the loop of clip: setattr(sset, name, getattr(sset, name)[0:cnum])
RECURSIVE clip_loop(_, _, _, _)
clip_loop(h, sset, cnum, k) ==
    IF k > Len(SplitNames) THEN h
    ELSE clip_loop(
             IF IsNone(h.sets[sset][SplitNames[k]]) THEN h
             ELSE [h EXCEPT !.sets[sset][SplitNames[k]] =
                                Some([Val(@) EXCEPT !.len = Min(@, cnum)])],
             sset, cnum, k + 1)

\* sample_set_base.clip(cnum) of a sample set with values
heap_clip(h, self, cnum) ==
    LET sset == Len(h.sets) + 1
        clipped == clip_loop(heap_copy(h, self), sset, cnum, 1)
    IN IF IsNone(clipped.sets[sset]["_values_local"]) THEN clipped
       ELSE heap_global_to_local(clipped, sset)

\* voronoi_sample_set.merge(sset) of two sample sets with values
heap_merge(h, self, sset) ==
    LET a == h.sets[self]
        b == h.sets[sset]
        mset == Len(h.sets) + 1
        h1 == new_set(h, a["_dim"])
        \* mset.set_domain(self._domain): the attribute is that array
        h2 == [h1 EXCEPT !.sets[mset]["_domain"] =
                  IF ~IsNone(a["_domain"]) THEN a["_domain"] ELSE b["_domain"]]
        h3 == IF IsNone(a["_values_local"]) THEN heap_global_to_local(h2, self)
              ELSE h2
        h4 == IF IsNone(h3.sets[sset]["_values_local"])
              THEN heap_global_to_local(h3, sset) ELSE h3
        merged == contents(h4, Val(h4.sets[self]["_values_local"]))
                    \o contents(h4, Val(h4.sets[sset]["_values_local"]))
        \* set_values_local of the concatenation, then local_to_global
        h5 == store_new(store_new(h4, mset, "_values_local", merged),
                        mset, "_values", merged)
    IN
    IF a["_dim"] # b["_dim"] THEN [h |-> h, res |-> Raise("dim_not_matching")]
    ELSE IF ~IsNone(a["_domain"]) /\ ~IsNone(b["_domain"])
            /\ contents(h, Val(a["_domain"])) # contents(h, Val(b["_domain"]))
    THEN [h |-> h, res |-> Raise("domain_not_matching")]
    ELSE [h |-> h5, res |-> Done]

\* array[k] = x, an assignment into an array of a sample set
heap_write(h, s, name, k, x) ==
    [h EXCEPT !.bufs[Val(h.sets[s][name]).buf][k] = x]

-----------------------------------------------------------------------------
(* The ownership model: two sample sets; copy, clip and merge derive new    *)
(* sample sets from the ones there are, and arrays are assigned into.       *)

\* the most sample sets there are
MaxSets == 4

\* the most assignments into arrays
MaxWrites == 1

\* the entry an assignment writes
Written == 9

\* a sample set with values, probabilities and a domain or none, localised
\* or not
source_set(h, values, domain, localised) ==
    LET s == Len(h.sets) + 1
        h1 == store_new(store_new(new_set(h, 1), s, "_values", values),
                        s, "_probabilities", <<5, 5>>)
        h2 == IF IsNone(domain) THEN h1 ELSE store_new(h1, s, "_domain", Val(domain))
    IN IF localised THEN heap_global_to_local(h2, s) ELSE h2

\* the assignments made so far
writes(h) ==
    Cardinality({<<b, k>> \in (1 .. Len(h.bufs)) \X (1 .. 2) :
                    k <= Len(h.bufs[b]) /\ h.bufs[b][k] = Written})

InitOwn ==
    /\ size = 1
    /\ populated = {}
    /\ obj = [r \in Ranks |-> sample_set_init(1)]
    /\ last = NoCall
    /\ disc = None
    /\ comp = None
    /\ frame = None
    /\ \E first \in BOOLEAN, second \in BOOLEAN,
          domain \in {None, Some(<<0, 4>>), Some(<<0, 8>>)} :
         heap = source_set(source_set([bufs |-> <<>>, sets |-> <<>>],
                                      <<1, 3>>, Some(<<0, 4>>), first),
                           <<2, 0>>, domain, second)

\* a call on the heap
HeapCall(op, arg, h, res) ==
    /\ heap' = h
    /\ last' = [op |-> op, name |-> "", arg |-> Some(arg),
                res |-> [r \in Ranks |-> res]]
    /\ UNCHANGED <<size, populated, obj, disc, comp, frame>>

OwnCopy ==
    /\ Len(heap.sets) < MaxSets
    /\ \E self \in 1 .. Len(heap.sets) :
         HeapCall("copy", <<self>>, heap_copy(heap, self), Done)

OwnClip ==
    /\ Len(heap.sets) < MaxSets
    /\ \E self \in 1 .. Len(heap.sets), cnum \in {1, 2} :
         HeapCall("clip", <<self, cnum>>, heap_clip(heap, self, cnum), Done)

OwnMerge ==
    /\ Len(heap.sets) < MaxSets
    /\ \E self \in 1 .. Len(heap.sets), sset \in 1 .. Len(heap.sets) :
         \E out \in {heap_merge(heap, self, sset)} :
             HeapCall("merge", <<self, sset>>, out.h, out.res)

OwnWrite ==
    /\ writes(heap) < MaxWrites
    /\ \E s \in 1 .. Len(heap.sets), k \in 1 .. Len(CopiedNames) :
         /\ ~IsNone(heap.sets[s][CopiedNames[k]])
         /\ Val(heap.sets[s][CopiedNames[k]]).len >= 1
         /\ HeapCall("write", <<s, k>>,
                     heap_write(heap, s, CopiedNames[k], 1, Written), Done)

NextOwn ==
    \/ OwnCopy
    \/ OwnClip
    \/ OwnMerge
    \/ OwnWrite

SpecOwn == InitOwn /\ [][NextOwn]_vars

-----------------------------------------------------------------------------
(* The io pointer of a discretization on comm.size workers.  In this model  *)
(* disc is Some function from the ranks to the discretization object of     *)
(* each worker, a record of the output sample set's values and local        *)
(* values, the values of the output probability set (None when there is no  *)
(* such set) and the two pointers.                                           *)

\* discretization.__init__ on one worker, before set_io_ptr
io_discretization(values, values_local, output_probability_set) ==
    [_values |-> values, _values_local |-> values_local,
     _output_probability_set |-> output_probability_set,
     _io_ptr |-> None, _io_ptr_local |-> None]

\* the outcome of a method on all workers
IoRes(D, res) == [D |-> D, res |-> res]

\* self._output_probability_set.query(x): the index of the sample nearest
\* to each point of x (the sample sets of this model have no ties)
io_query(data, x) ==
    [i \in 1 .. Len(x) |-> CHOOSE j \in kd_nearest(data, x[i]) : TRUE]

\* self._output_sample_set.global_to_local() on every worker
io_global_to_local(D) ==
    [r \in Ranks |->
        [D[r] EXCEPT !["_values_local"] =
            Some(np_array_split(Val(D[r]["_values"]), size, r))]]

\* set_io_ptr(globalize) on every worker
io_set_io_ptr(D, globalize) ==
    LET D1 == IF IsNone(D[0]["_values_local"]) THEN io_global_to_local(D) ELSE D
        local == [r \in Ranks |->
                     io_query(Val(Val(D1[r]["_output_probability_set"])),
                              Val(D1[r]["_values_local"]))]
    IN
    \* self._output_probability_set.query of None
    IF IsNone(D[0]["_output_probability_set"])
    THEN IoRes(D1, Raise("AttributeError"))
    \* set_kdtree of a sample set without values
    ELSE IF IsNone(Val(D[0]["_output_probability_set"]))
    THEN IoRes(D1, Raise("ValueError"))
    ELSE IoRes([r \in Ranks |->
                   [D1[r] EXCEPT !["_io_ptr_local"] = Some(local[r]),
                                 !["_io_ptr"] =
                                     IF globalize
                                     THEN Some(ConcatRanks(local, size))
                                     ELSE @]],
               Done)

\* discretization.__init__ with an output sample set that has values
io_init(values, localised, output_probability_set) ==
    LET D == [r \in Ranks |->
                 io_discretization(Some(values),
                                   IF localised
                                   THEN Some(np_array_split(values, size, r))
                                   ELSE None,
                                   output_probability_set)]
    IN IF IsNone(output_probability_set) THEN IoRes(D, Done)
       ELSE io_set_io_ptr(D, TRUE)

\* set_output_probability_set(output_probability_set) on every worker; None
\* stands for an argument that is no sample set
io_set_output_probability_set(D, output_probability_set) ==
    LET D1 == [r \in Ranks |->
                  [D[r] EXCEPT !["_output_probability_set"] =
                                   output_probability_set]]
    IN
    IF IsNone(output_probability_set) THEN IoRes(D, Raise("AttributeError"))
    ELSE IF IsNone(D[0]["_values_local"]) \/ IsNone(Val(output_probability_set))
    THEN IoRes(D1, Done)
    ELSE io_set_io_ptr(D1, FALSE)

\* globalize_ptrs() on every worker
io_globalize_ptrs(D) ==
    IF ~IsNone(D[0]["_io_ptr_local"]) /\ IsNone(D[0]["_io_ptr"])
    THEN [r \in Ranks |->
             [D[r] EXCEPT !["_io_ptr"] =
                 Some(ConcatRanks([q \in Ranks |-> Val(D[q]["_io_ptr_local"])],
                                  size))]]
    ELSE D

-----------------------------------------------------------------------------
(* The pointer model: a discretization of three output samples is built,    *)
(* with or without an output probability set, and its probability set is    *)
(* replaced.                                                                 *)

\* the values of the output sample set
IoValues == <<<<1>>, <<9>>, <<2>>>>

\* the output probability sets: Some values, or None for a set without values
IoProbSets == {Some(<<<<0>>, <<10>>>>), Some(<<<<10>>, <<0>>>>), None}

InitPtr ==
    /\ size \in 1 .. MaxW
    /\ populated = {}
    /\ obj = [r \in Ranks |-> sample_set_init(1)]
    /\ last = NoCall
    /\ disc = None
    /\ comp = None
    /\ heap = None
    /\ frame = None

\* a call on the discretization of every worker
IoCall(op, arg, call) ==
    \E out \in {call} :
        /\ disc' = Some(out.D)
        /\ last' = [op |-> op, name |-> "", arg |-> Some(arg),
                    res |-> [r \in Ranks |-> out.res]]
        /\ UNCHANGED <<size, populated, obj, comp, heap, frame>>

IoConstruct ==
    /\ IsNone(disc)
    /\ \E localised \in BOOLEAN, S \in {None} \cup {Some(x) : x \in IoProbSets \ {None}} :
         IoCall("__init__", S, io_init(IoValues, localised, S))

IoSetOutputProbabilitySet ==
    /\ ~IsNone(disc)
    /\ \E S \in {None} \cup {Some(x) : x \in IoProbSets} :
         IoCall("set_output_probability_set", S,
                io_set_output_probability_set(Val(disc), S))

IoSetIoPtr ==
    /\ ~IsNone(disc)
    /\ \E globalize \in BOOLEAN :
         IoCall("set_io_ptr", globalize, io_set_io_ptr(Val(disc), globalize))

IoGlobalizePtrs ==
    /\ ~IsNone(disc)
    /\ IoCall("globalize_ptrs", <<>>, IoRes(io_globalize_ptrs(Val(disc)), Done))

IoGetIoPtr ==
    /\ ~IsNone(disc)
    /\ disc' = disc
    /\ last' = [op |-> "get_io_ptr", name |-> "", arg |-> None,
                res |-> [r \in Ranks |-> Ok(Val(disc)[r]["_io_ptr"])]]
    /\ UNCHANGED <<size, populated, obj, comp, heap, frame>>

NextPtr ==
    \/ IoConstruct
    \/ IoSetOutputProbabilitySet
    \/ IoSetIoPtr
    \/ IoGlobalizePtrs
    \/ IoGetIoPtr

SpecPtr == InitPtr /\ [][NextPtr]_vars

-----------------------------------------------------------------------------
(* The rejection sampling loop of estimate_local_volume on one worker.      *)
(* frame holds the local variables of the call and its position: at the     *)
(* test of the while loop of cell i, after the loop of cell i, or returned. *)
(* rounds counts the passes through the body of the loop for the cell.      *)

\* the local variables when the for loop reaches cell i
enter_cell(num_emulate_local, max_num_emulate, cells, i) ==
    [pc |-> "while", i |-> i, cells |-> cells,
     num_emulate_local |-> num_emulate_local,
     max_num_emulate |-> max_num_emulate,
     samples_in_cell |-> 0, total_samples |-> 10, rounds |-> 0]

\* the test of the while loop
loop_continues(f) ==
    f.samples_in_cell < f.num_emulate_local /\ f.total_samples < f.max_num_emulate

\* a mutation of loop_round: the budget is not multiplied
loop_round_same_budget(f, in_cell) ==
    [f EXCEPT !.samples_in_cell = Min(in_cell, f.total_samples),
              !.rounds = @ + 1]

\* the body of the while loop: the budget is multiplied by 10, that many
\* points are drawn and in_cell of them are found in the cell
loop_round(f, in_cell) ==
    [f EXCEPT !.total_samples = @ * 10,
              !.samples_in_cell = in_cell,
              !.rounds = @ + 1]

\* the numbers of drawn points the k-d tree can find in the cell
InCell(f) ==
    {n \in {0, f.num_emulate_local - 1, f.num_emulate_local, f.total_samples * 10} :
        n >= 0 /\ n <= f.total_samples * 10}

\* the cells of the worker
LoopCells == 2

\* num_emulate_local, after int()
NumEmulateLocal == {0, 1, 500}

\* max_num_emulate, after int()
MaxNumEmulate == {0, 1, 10, 11, 100, 5000, 10000}

InitLoop ==
    /\ size = 1
    /\ populated = {}
    /\ obj = [r \in Ranks |-> sample_set_init(1)]
    /\ last = NoCall
    /\ disc = None
    /\ comp = None
    /\ heap = None
    /\ \E num_emulate_local \in NumEmulateLocal, max_num_emulate \in MaxNumEmulate :
         frame = enter_cell(num_emulate_local, max_num_emulate, LoopCells, 1)

LoopRound ==
    /\ frame.pc = "while"
    /\ loop_continues(frame)
    /\ \E in_cell \in InCell(frame) : frame' = loop_round(frame, in_cell)
    /\ UNCHANGED <<size, populated, obj, last, disc, comp, heap>>

LoopExit ==
    /\ frame.pc = "while"
    /\ ~loop_continues(frame)
    /\ frame' = [frame EXCEPT !.pc = "exit"]
    /\ UNCHANGED <<size, populated, obj, last, disc, comp, heap>>

LoopNextCell ==
    /\ frame.pc = "exit"
    /\ frame' = IF frame.i < frame.cells
                THEN enter_cell(frame.num_emulate_local, frame.max_num_emulate,
                                frame.cells, frame.i + 1)
                ELSE [frame EXCEPT !.pc = "done"]
    /\ UNCHANGED <<size, populated, obj, last, disc, comp, heap>>

NextLoop ==
    \/ LoopRound
    \/ LoopExit
    \/ LoopNextCell

\* the worker keeps executing the call it is in
SpecLoop == InitLoop /\ [][NextLoop]_vars /\ WF_vars(NextLoop)

-----------------------------------------------------------------------------
(* estimate_volume and estimate_volume_emulated: Monte Carlo volumes of a   *)
(* Voronoi sample set of one coordinate on comm.size workers.               *)

\* a mutation of n_mc_points_local: the remainder of the division is dropped
n_mc_points_local_floor(n_mc_points, W, r) ==
    n_mc_points \div W

\* int(n_mc_points/comm.size) + int(comm.rank < n_mc_points % comm.size)
n_mc_points_local(n_mc_points, W, r) ==
    (n_mc_points \div W) + (IF r < n_mc_points % W THEN 1 ELSE 0)

\* np.sum(np.equal(emulate_ptr, i))
count_equal(emulate_ptr, i) ==
    Cardinality({k \in 1 .. Len(emulate_ptr) : emulate_ptr[k] = i})

\* a mutation of allreduce_sum: every worker keeps its own counts
allreduce_sum_local(vol, W, r) ==
    vol[r]

\* comm.Allreduce([vol, MPI.DOUBLE], [cvol, MPI.DOUBLE], op=MPI.SUM) as seen
\* by worker r; vol[q] is the array of worker q
allreduce_sum(vol, W, r) ==
    [i \in 1 .. Len(vol[r]) |-> SumRanks([q \in DOMAIN vol |-> vol[q][i]], W)]

\* vol / float(total): the quotients count / total; 0 / 0 is nan
divide(cvol, total) == [i \in 1 .. Len(cvol) |-> <<cvol[i], total>>]

\* the part of estimate_volume on worker r before the reduction; queried is
\* the outcome of self.query(mc_points) on worker r
estimate_volume_local(objs, r, queried) ==
    LET c == check_num(objs, r) IN
    IF c.status # "ok" THEN [obj |-> objs[r], res |-> c]
    \* width = self._domain[:, 1] - self._domain[:, 0]
    ELSE IF IsNone(objs[r]["_domain"]) THEN [obj |-> objs[r], res |-> Raise("TypeError")]
    ELSE IF queried.res.status # "ok" THEN queried
    ELSE [obj |-> queried.obj,
          res |-> Ok([i \in 1 .. Val(c.value) |->
                        count_equal(Val(queried.res.value).ptr, i - 1)])]

\* the reduction and what follows it in estimate_volume and in
\* estimate_volume_emulated, on worker r: before[q] is the outcome of the
\* part before the reduction on worker q, total the number of points
reduce_volumes(before, r, total) ==
    LET W == Cardinality(DOMAIN before) IN
    IF before[r].res.status # "ok" THEN before[r]
    ELSE IF \E q \in DOMAIN before : before[q].res.status # "ok"
    THEN [obj |-> before[r].obj, res |-> Blocked]
    ELSE Then([q \in DOMAIN before |-> Val(before[q].res.value)], LAMBDA vol :
         Then([q \in DOMAIN before |->
                 [before[q].obj EXCEPT !["_volumes"] =
                     Some(divide(allreduce_sum(vol, W, q), total))]],
              LAMBDA stored : global_to_local(stored, r)))

\* estimate_volume(n_mc_points) on worker r, every worker calling it
estimate_volume(objs, r, n_mc_points, queried) ==
    Then([q \in DOMAIN objs |-> estimate_volume_local(objs, q, queried[q])],
         LAMBDA before : reduce_volumes(before, r, n_mc_points))

\* the part of estimate_volume_emulated on worker r before the reduction;
\* emulated[q] is the emulated sample set as worker q holds it after its
\* global_to_local, queried the outcome of self.query on its local values
estimate_volume_emulated_local(objs, r, emulated, queried) ==
    LET c == check_num(objs, r) IN
    IF c.status # "ok" THEN [obj |-> objs[r], res |-> c]
    ELSE IF emulated[r].res.status # "ok"
    THEN [obj |-> objs[r], res |-> emulated[r].res]
    ELSE IF queried.res.status # "ok" THEN queried
    ELSE [obj |-> queried.obj,
          res |-> Ok([i \in 1 .. Val(c.value) |->
                        count_equal(Val(queried.res.value).ptr, i - 1)])]

\* the emulated sample set on worker r after
\* "if emulated_sample_set._values_local is None: global_to_local()"
emulated_local(emulated, r) ==
    IF IsNone(emulated[r]["_values_local"]) THEN global_to_local(emulated, r)
    ELSE [obj |-> emulated[r], res |-> Done]

\* estimate_volume_emulated(emulated_sample_set) on worker r
estimate_volume_emulated(objs, r, emulated, queried) ==
    LET W == Cardinality(DOMAIN objs) IN
    Then([q \in DOMAIN objs |-> emulated_local(emulated, q)], LAMBDA em :
    Then([q \in DOMAIN objs |->
            estimate_volume_emulated_local(objs, q, em, queried[q])],
         LAMBDA before :
    reduce_volumes(before, r,
                   \* comm.allreduce(num_emulate, op=MPI.SUM)
                   SumRanks([q \in DOMAIN objs |->
                               IF IsNone(em[q].obj["_values_local"]) THEN 0
                               ELSE shape0(Val(em[q].obj["_values_local"]))], W))))

-----------------------------------------------------------------------------
(* The Monte Carlo model: one Voronoi sample set of dimension 1 on          *)
(* comm.size workers.                                                       *)

\* largest n_mc_points
MaxMC == 3

MCValueInputs == {<<<<2>>>>, <<<<1>>, <<5>>>>, <<<<6>>, <<2>>, <<4>>>>}

\* the points np.random.random can give inside the domain [0, 8)
MCPoints == {<<3>>, <<7>>}

\* the global values of an emulated sample set
EmulatedInputs == {<<<<7>>, <<1>>>>, <<<<1>>, <<3>>, <<7>>>>}

InitMC ==
    /\ size \in 1 .. MaxW
    /\ populated = {}
    /\ obj = [r \in Ranks |-> sample_set_init(1)]
    /\ last = NoCall
    /\ disc = None
    /\ comp = None
    /\ heap = None
    /\ frame = None

\* first index of the points of worker r among all points drawn
mc_start(n, W, r) == SumRanks([q \in 0 .. (W - 1) |->
                                 IF q < r THEN n_mc_points_local(n, W, q) ELSE 0], W)

\* the answers self.query can give on every worker, Q[r] being the answers
\* it can give on worker r
Queried(Q) ==
    {out \in [Ranks -> UNION {Q[r] : r \in Ranks}] : \A r \in Ranks : out[r] \in Q[r]}

\* emulate_ptr on worker r
emulate_ptr(queried, r) ==
    IF queried[r].res.status = "ok" THEN Val(queried[r].res.value).ptr ELSE <<>>

\* what a call drew and what its queries answered: the number of points of
\* every worker, and for every cell the number of points, over all workers,
\* that the queries gave to it
Drawn(n, queried) ==
    [n |-> n,
     n_local |-> [r \in Ranks |-> Len(emulate_ptr(queried, r))],
     owned |-> [i \in 0 .. (MaxPts - 1) |->
                  Cardinality({p \in UNION {{r} \X (1 .. Len(emulate_ptr(queried, r))) :
                                               r \in Ranks} :
                                  emulate_ptr(queried, p[1])[p[2]] = i})]]

EstimateVolume ==
    \E n \in 0 .. MaxMC :
    \E drawn \in [1 .. n -> MCPoints] :
    \E mc_points \in {[r \in Ranks |->
                          [k \in 1 .. n_mc_points_local(n, size, r) |->
                              drawn[mc_start(n, size, r) + k]]]} :
    \E Q \in {[r \in Ranks |-> query(obj, r, mc_points[r])]} :
    \E queried \in Queried(Q) :
        Call("estimate_volume", "_volumes", Some(Drawn(n, queried)),
             [r \in Ranks |-> estimate_volume(obj, r, n, queried)])

\* an emulated sample set with global values only
emulated_global(values) ==
    [r \in Ranks |-> set_values(sample_set_init(1), values).obj]

\* the first k points of values that worker r holds
RECURSIVE shard(_, _, _, _)
shard(values, owner, r, k) ==
    IF k = 0 THEN <<>>
    ELSE shard(values, owner, r, k - 1)
            \o (IF owner[k] = r THEN <<values[k]>> ELSE <<>>)

\* an emulated sample set whose point k is held by worker owner[k]
emulated_shards(values, owner) ==
    [r \in Ranks |->
        set_local(sample_set_init(1), "_values",
                  shard(values, owner, r, Len(values))).obj]

EstimateVolumeEmulated ==
    \E values \in EmulatedInputs :
    \E emulated \in {emulated_global(values)}
                      \cup {emulated_shards(values, owner) :
                              owner \in [1 .. Len(values) -> Ranks]} :
    \E x \in {[r \in Ranks |->
                  LET e == emulated_local(emulated, r).obj["_values_local"] IN
                  IF IsNone(e) THEN <<>> ELSE Val(e)]} :
    \E Q \in {[r \in Ranks |-> query(obj, r, x[r])]} :
    \E queried \in Queried(Q) :
        Call("estimate_volume_emulated", "_volumes",
             Some(Drawn(Len(values), queried)),
             [r \in Ranks |-> estimate_volume_emulated(obj, r, emulated, queried)])

NextMC ==
    \/ \E v \in MCValueInputs : SetValues(v)
    \/ \E d \in DomainInputs : SetDomain(d)
    \/ EstimateVolume
    \/ EstimateVolumeEmulated

SpecMC == InitMC /\ [][NextMC]_vars

-----------------------------------------------------------------------------
(* Properties of the partition model.                                      *)

AllOk == \A r \in Ranks : last.res[r].status = "ok"

\* the shards of attribute n in worker-rank order
Shards(n) == [q \in Ranks |-> Val(obj[q][local_name[n]])]

\* after a successful global_to_local every populated global array is split
\* into contiguous blocks in rank order
PartitionCoherent ==
    (last.op = "global_to_local" /\ AllOk) =>
        \A r \in Ranks :
            /\ ~IsNone(obj[r]["_local_index"])
            /\ ConcatRanks([q \in Ranks |-> Val(obj[q]["_local_index"])], size)
                  = arange(Val(check_num(obj, r).value))
            /\ \A n \in GlobalNames :
                 ~IsNone(obj[r][n]) =>
                    /\ ~IsNone(obj[r][local_name[n]])
                    /\ ConcatRanks(Shards(n), size) = Val(obj[r][n])
                    /\ Len(Val(obj[r][local_name[n]])) = Len(Val(obj[r]["_local_index"]))
                    /\ \A i \in 1 .. Len(Val(obj[r][local_name[n]])) :
                         Val(obj[r][local_name[n]])[i]
                            = Val(obj[r][n])[Val(obj[r]["_local_index"])[i] + 1]

\* a local_to_global that follows a successful global_to_local changes no
\* populated global array
RoundTripStep ==
    (last.op = "global_to_local" /\ AllOk /\ last'.op = "local_to_global") =>
        \A r \in Ranks : \A n \in GlobalNames :
            ~IsNone(obj[r][n]) => obj'[r][n] = obj[r][n]

\* C1: for N samples on W >= 1 workers, global_to_local leaves on the workers
\* contiguous index blocks in rank order whose concatenation in rank order is
\* the global array, for every populated attribute, and a following
\* local_to_global leaves every populated global array as it was.
C1_PartitionRoundTrip == []PartitionCoherent /\ [][RoundTripStep]_vars

\* a round trip over an uneven split of values and one more attribute
C1_Witness ==
    /\ last.op = "local_to_global"
    /\ size >= 2
    /\ \A r \in Ranks :
        /\ ~IsNone(obj[r]["_values"])
        /\ Len(Val(obj[r]["_values"])) % size # 0
        /\ \E n \in OptionalNames : ~IsNone(obj[r][n])
        /\ ~IsNone(obj[r]["_local_index"])
        /\ \A n \in GlobalNames :
             ~IsNone(obj[r][n]) =>
                /\ ~IsNone(obj[r][local_name[n]])
                /\ Val(obj[r][local_name[n]])
                     = [i \in 1 .. Len(Val(obj[r]["_local_index"])) |->
                          Val(obj[r][n])[Val(obj[r]["_local_index"])[i] + 1]]

\* leading dimensions of the populated global arrays of o
GlobalLens(o) == {Len(Val(o[n])) : n \in {m \in GlobalNames : ~IsNone(o[m])}}

LocalLens(o) == {Len(Val(o[n])) : n \in {m \in LocalNames : ~IsNone(o[m])}}

\* the local count of a worker: the leading dimension of its populated local
\* arrays, 0 when it has none
LocalCount(o) == IF LocalLens(o) = {} THEN 0 ELSE CHOOSE k \in LocalLens(o) : TRUE

\* the statement of C2 as written: length_not_matching when two populated
\* global arrays differ in length, and in every other state the common count
\* (the sum of the local counts when no global array is populated)
C2_AsWritten ==
    last.op = "check_num" =>
        \A r \in Ranks :
            IF Cardinality(GlobalLens(obj[r])) > 1
            THEN last.res[r].status = "length_not_matching"
            ELSE /\ last.res[r].status = "ok"
                 /\ Val(last.res[r].value) =
                      IF GlobalLens(obj[r]) # {}
                      THEN CHOOSE k \in GlobalLens(obj[r]) : TRUE
                      ELSE SumRanks([q \in Ranks |-> LocalCount(obj[q])], size)

WrongDim(o) ==
    /\ ~IsNone(o["_values"])
    /\ \E i \in 1 .. Len(Val(o["_values"])) : Len(Val(o["_values"])[i]) # Val(o["_dim"])

\* C2 (amended): check_num raises length_not_matching whenever two populated
\* global arrays differ in leading dimension; otherwise it raises
\* dim_not_matching when values has a trailing dimension other than dim;
\* otherwise it returns the common count N; when no global array is populated
\* a worker whose populated local arrays differ in length raises
\* length_not_matching (the other workers then wait in the reduction), and
\* only when every worker's local arrays agree is the sum of the local counts
\* returned.
C2_CheckNum ==
    last.op = "check_num" =>
        \A r \in Ranks :
            IF Cardinality(GlobalLens(obj[r])) > 1
            THEN last.res[r].status = "length_not_matching"
            ELSE IF WrongDim(obj[r])
            THEN last.res[r].status = "dim_not_matching"
            ELSE IF GlobalLens(obj[r]) # {}
            THEN /\ last.res[r].status = "ok"
                 /\ Val(last.res[r].value) = CHOOSE k \in GlobalLens(obj[r]) : TRUE
            ELSE IF Cardinality(LocalLens(obj[r])) > 1
            THEN last.res[r].status = "length_not_matching"
            ELSE IF \E q \in Ranks : Cardinality(LocalLens(obj[q])) > 1
            THEN last.res[r].status = "blocked"
            ELSE /\ last.res[r].status = "ok"
                 /\ Val(last.res[r].value) =
                      SumRanks([q \in Ranks |-> LocalCount(obj[q])], size)

\* check_num has raised on two global arrays of different lengths
C2_Witness ==
    /\ last.op = "check_num"
    /\ \A r \in Ranks :
        /\ Cardinality(GlobalLens(obj[r])) > 1
        /\ last.res[r].status = "length_not_matching"

AttrSetters == {"set_volumes", "set_probabilities", "set_jacobians",
                "set_error_estimates"}

\* the statement of C3 as written: a per-sample array whose length is not the
\* number of values is rejected at the assignment and the attribute keeps its
\* old value
C3_AsWritten ==
    [][(/\ last'.op \in AttrSetters
        /\ \A r \in Ranks : ~IsNone(obj[r]["_values"])
        /\ \E r \in Ranks : Len(Val(last'.arg)) # Len(Val(obj[r]["_values"])))
       => \A r \in Ranks :
            /\ last'.res[r].status = "length_not_matching"
            /\ obj'[r][last'.name] = obj[r][last'.name]]_vars

\* C3 (amended): set_volumes, set_probabilities, set_jacobians and
\* set_error_estimates store the array they are given without any check, also
\* when its leading dimension is not the number N of values; the mismatch is
\* raised as length_not_matching by the next check_num.
C3_SetterStoresUnchecked ==
    last.op \in AttrSetters =>
        \A r \in Ranks :
            /\ last.res[r].status = "ok"
            /\ obj[r][last.name] = last.arg
            /\ (~IsNone(obj[r]["_values"])
                /\ Len(Val(last.arg)) # Len(Val(obj[r]["_values"])))
               => check_num(obj, r).status = "length_not_matching"

\* set_volumes has stored an array whose length is not the number of values
C3_Witness ==
    /\ last.op = "set_volumes"
    /\ \A r \in Ranks :
        /\ ~IsNone(obj[r]["_values"])
        /\ Len(Val(last.arg)) # Len(Val(obj[r]["_values"]))
        /\ obj[r]["_volumes"] = last.arg

-----------------------------------------------------------------------------
(* Properties of the Voronoi model.                                        *)

\* the points x are each assigned to a nearest one of the points data
NearestAmong(data, x, ptr) ==
    /\ Len(ptr) = Len(x)
    /\ \A i \in 1 .. Len(x) :
        /\ ptr[i] \in 0 .. (Len(data) - 1)
        /\ \A j \in 1 .. Len(data) :
             Abs(data[ptr[i] + 1][1] - x[i][1]) <= Abs(data[j][1] - x[i][1])

\* C5 as written: the index is built on the first query and invalidated when
\* the values change shape, so that a query issued after set_values or
\* append_values changed the number of points succeeds and assigns every
\* query point to its nearest among the current values.
C5_AsWritten ==
    [][(/\ last'.op = "query"
        /\ ~IsNone(obj[0]["_kdtree"])
        /\ ~IsNone(obj[0]["_values"])
        /\ Len(Val(obj[0]["_kdtree"])) # Len(Val(obj[0]["_values"])))
       => /\ last'.res[0].status = "ok"
          /\ NearestAmong(Val(obj'[0]["_values"]), Val(last'.arg),
                          Val(last'.res[0].value).ptr)]_vars

Distinct(values) ==
    \A i, j \in 1 .. Len(values) : values[i] = values[j] => i = j

\* C6 as written: for pairwise distinct sample points, a query of the sample
\* values themselves that returns assigns point i to region i.
C6_AsWritten ==
    (/\ last.op = "query"
     /\ last.arg = obj[0]["_values"]
     /\ Distinct(Val(obj[0]["_values"]))
     /\ last.res[0].status = "ok")
    => Val(last.res[0].value).ptr
         = [i \in 1 .. Len(Val(obj[0]["_values"])) |-> i - 1]

\* twice the length of the cell of sample i: from the midpoint with the next
\* smaller sample (or the lower domain edge) to the midpoint with the next
\* larger sample (or the upper domain edge)
CellLength2(values, domain, i) ==
    LET v == values[i][1]
        below == {values[j][1] : j \in 1 .. Len(values)} \cap (domain[1][1] .. (v - 1))
        above == {values[j][1] : j \in 1 .. Len(values)} \cap ((v + 1) .. domain[1][2])
        lo2 == IF below = {} THEN 2 * domain[1][1]
               ELSE v + (CHOOSE b \in below : \A c \in below : c <= b)
        hi2 == IF above = {} THEN 2 * domain[1][2]
               ELSE v + (CHOOSE a \in above : \A c \in above : a <= c)
    IN hi2 - lo2

RECURSIVE SumNum(_, _)
SumNum(vols, n) == IF n = 0 THEN 0 ELSE vols[n][1] + SumNum(vols, n - 1)

InsideDomain(values, domain) ==
    \A i \in 1 .. Len(values) :
        domain[1][1] <= values[i][1] /\ values[i][1] <= domain[1][2]

\* C10 as written: for a one-dimensional Voronoi sample set of distinct points
\* inside its domain, exact_volume_1D stores for every sample, at its original
\* index, the length of its cell divided by the domain width, and the stored
\* volumes sum to 1.
C10_AsWritten ==
    (/\ last.op = "exact_volume_1D"
     /\ ~IsNone(obj[0]["_values"])
     /\ ~IsNone(obj[0]["_domain"])
     /\ IF IsNone(obj[0]["_values"]) \/ IsNone(obj[0]["_domain"]) THEN FALSE
        ELSE /\ Distinct(Val(obj[0]["_values"]))
             /\ InsideDomain(Val(obj[0]["_values"]), Val(obj[0]["_domain"])))
    => /\ last.res[0].status = "ok"
       /\ ~IsNone(obj[0]["_volumes"])
       /\ LET values == Val(obj[0]["_values"])
              domain == Val(obj[0]["_domain"])
              vols == Val(obj[0]["_volumes"])
          IN /\ Len(vols) = Len(values)
             /\ \A i \in 1 .. Len(values) :
                  vols[i][1] * 2 * (domain[1][2] - domain[1][1])
                    = CellLength2(values, domain, i) * vols[i][2]
             /\ SumNum(vols, Len(vols)) = 2 * (domain[1][2] - domain[1][1])

-----------------------------------------------------------------------------
(* Properties of the region model.                                         *)

\* the explicit region i (0-based) of the sample set o contains the point pt
InRegion(o, i, pt) ==
    IF Val(o["class"]) = "rectangle_sample_set"
    THEN \A a \in 1 .. Len(pt) :
            /\ Val(o["_left"])[i + 1][a] < pt[a]
            /\ pt[a] <= Val(o["_right"])[i + 1][a]
    ELSE ball_in_rec(o, i, pt)

\* the explicit regions of o containing pt
Containing(o, pt) ==
    {i \in 0 .. (Len(Val(o["_values"])) - 2) : InRegion(o, i, pt)}

\* setup has run and the arrays of the sample set have one common length
SetUp == ~IsNone(obj[0]["_values"]) /\ check_num(obj, 0).status = "ok"

\* C7: for a rectangle or ball sample set with N-1 explicit regions (and
\* arrays of one common length N), query(x, k=1) returns for every point of
\* x distance 0 and the lowest index of an explicit region containing it, or
\* infinite distance and the index N-1 when no explicit region contains it;
\* the index is always in 0..N-1.
C7_LowestRegionWins ==
    (last.op = "query" /\ SetUp /\ Val(last.arg).k = 1)
    => /\ last.res[0].status = "ok"
       /\ LET N == Len(Val(obj[0]["_values"]))
              x == Val(last.arg).x
              q == Val(last.res[0].value)
          IN \A p \in 1 .. Len(x) :
               LET C == Containing(obj[0], x[p]) IN
               /\ q.ptr[p] \in 0 .. (N - 1)
               /\ IF C = {}
                  THEN q.dist[p] = inf /\ q.ptr[p] = N - 1
                  ELSE /\ q.dist[p] = 0
                       /\ q.ptr[p] \in C
                       /\ \A c \in C : q.ptr[p] <= c

\* a query with k = 1 has answered for a point inside two explicit regions
C7_Witness ==
    /\ last.op = "query"
    /\ SetUp
    /\ Val(last.arg).k = 1
    /\ last.res[0].status = "ok"
    /\ \E p \in 1 .. Len(Val(last.arg).x) :
         /\ Cardinality(Containing(obj[0], Val(last.arg).x[p])) >= 2
         /\ Val(last.res[0].value).ptr[p] = 0
         /\ 1 \in Containing(obj[0], Val(last.arg).x[p])

\* the j-th smallest (j from 1) element of the set C of integers
NthSmallest(C, j) ==
    CHOOSE c \in C : Cardinality({d \in C : d < c}) = j - 1

\* C8 as written: for k > 1, query(x, k) lists for each point the explicit
\* regions containing it in increasing index order without repeating any
\* region, with distance 0 for each listed region, and fills every remaining
\* slot with the index N-1 and infinite distance.
C8_AsWritten ==
    (last.op = "query" /\ SetUp /\ Val(last.arg).k > 1)
    => /\ last.res[0].status = "ok"
       /\ LET N == Len(Val(obj[0]["_values"]))
              x == Val(last.arg).x
              k == Val(last.arg).k
              q == Val(last.res[0].value)
          IN \A p \in 1 .. Len(x) :
               LET C == Containing(obj[0], x[p]) IN
               \A j \in 1 .. k :
                  IF j <= Cardinality(C)
                  THEN q.ptr[p][j] = NthSmallest(C, j) /\ q.dist[p][j] = 0
                  ELSE q.ptr[p][j] = N - 1 /\ q.dist[p][j] = inf

\* <<numerator, denominator>> of the sum of the rationals nums[i] / dens[i]
RECURSIVE RatSum(_, _, _)
RatSum(nums, dens, n) ==
    IF n = 0 THEN <<0, 1>>
    ELSE LET rest == RatSum(nums, dens, n - 1) IN
         <<rest[1] * dens[n] + nums[n] * rest[2], rest[2] * dens[n]>>

\* C9: after exact_volume_lebesgue on a rectangle sample set every explicit
\* region has the product over the axes of (max - min) / domain width, after
\* exact_volume on a ball sample set every explicit ball of radius r has
\* (2 r)^dim * g / (domain volume), g the gamma factor of the p-norm; the
\* implicit last region has 1 minus the sum of the explicit fractions, so the
\* N volumes sum to 1.
C9_ExactVolumes ==
    (/\ last.op \in {"exact_volume_lebesgue", "exact_volume"}
     /\ SetUp
     /\ ~IsNone(obj[0]["_domain"]))
    => /\ last.res[0].status = "ok"
       /\ LET o == obj[0]
              N == Len(Val(o["_values"]))
              vols == Val(o["_volumes"])
              D == domain_vol(Val(o["_domain"]))
              dim == Val(o["_dim"])
          IN
          /\ Len(vols) = N
          /\ IF last.op = "exact_volume_lebesgue"
             THEN /\ \A i \in 1 .. (N - 1) :
                        vols[i][1] * D
                          = ProdSeq([a \in 1 .. dim |->
                                        Val(o["_right"])[i][a] - Val(o["_left"])[i][a]],
                                    dim) * vols[i][2]
                  /\ LET sum == RatSum([i \in 1 .. N |-> vols[i][1]],
                                       [i \in 1 .. N |-> vols[i][2]], N)
                     IN sum[1] = sum[2]
             ELSE /\ \A i \in 1 .. (N - 1) :
                        /\ vols[i][1] = 0
                        /\ vols[i][2] * D
                             = Pow(2 * Val(o["_radii"])[i], dim) * vols[i][3]
                  /\ LET suma == RatSum([i \in 1 .. N |-> vols[i][1]],
                                        [i \in 1 .. N |-> vols[i][3]], N)
                         sumb == RatSum([i \in 1 .. N |-> vols[i][2]],
                                        [i \in 1 .. N |-> vols[i][3]], N)
                     IN suma[1] = suma[2] /\ sumb[1] = 0

\* the exact volumes of a rectangle sample set of three explicit regions in
\* two dimensions have been computed
C9_Witness ==
    /\ last.op = "exact_volume_lebesgue"
    /\ last.res[0].status = "ok"
    /\ SetUp
    /\ Val(obj[0]["_dim"]) = 2
    /\ Len(Val(obj[0]["_values"])) = 4
    /\ ~IsNone(obj[0]["_volumes"])
    /\ Len(Val(obj[0]["_volumes"])) = 4

-----------------------------------------------------------------------------
(* Properties of the Monte Carlo model.                                    *)

\* sum of the numerators of the volumes vols, entries 1 .. n
RECURSIVE SumCounts(_, _)
SumCounts(vols, n) == IF n = 0 THEN 0 ELSE vols[n][1] + SumCounts(vols, n - 1)

\* worker r drew floor(n / W) points, plus one iff r < n mod W, and the
\* workers together drew n points
SharesOfDraw ==
    LET a == Val(last.arg) IN
    /\ \A r \in Ranks :
         a.n_local[r] = (a.n \div size) + (IF r < a.n % size THEN 1 ELSE 0)
    /\ SumRanks(a.n_local, size) = a.n

\* the volumes of worker r are non-negative numbers and sum to at most 1
VolumesAreFractions(r) ==
    LET vols == Val(obj[r]["_volumes"]) IN
    /\ \A i \in 1 .. Len(vols) : vols[i][2] > 0 /\ vols[i][1] >= 0
    /\ \A i \in 1 .. Len(vols) : SumCounts(vols, Len(vols)) <= vols[i][2]

\* C11 as written: in estimate_volume with n_mc_points points and W workers,
\* worker r draws floor(n_mc_points / W) points plus one more iff
\* r < n_mc_points mod W, the workers together draw n_mc_points points, and
\* the volumes are non-negative and sum to at most 1.
C11_AsWritten ==
    (last.op = "estimate_volume" /\ AllOk)
    => /\ SharesOfDraw
       /\ \A r \in Ranks : VolumesAreFractions(r)

\* C11 (amended): the shares of the draw are as stated for every
\* n_mc_points >= 0; for n_mc_points >= 1 the volumes are the non-negative
\* fractions count / n_mc_points and sum to exactly 1, and for
\* n_mc_points = 0 every volume is 0 / 0 (nan).
C11_SharesAndFractions ==
    (last.op = "estimate_volume" /\ AllOk)
    => /\ SharesOfDraw
       /\ \A r \in Ranks :
            LET vols == Val(obj[r]["_volumes"]) IN
            IF Val(last.arg).n >= 1
            THEN /\ VolumesAreFractions(r)
                 /\ \A i \in 1 .. Len(vols) : vols[i][2] = Val(last.arg).n
                 /\ SumCounts(vols, Len(vols)) = Val(last.arg).n
            ELSE \A i \in 1 .. Len(vols) : vols[i] = <<0, 0>>

\* estimate_volume has returned on two workers that drew different numbers
\* of points, for a sample set of more than one cell
C11_Witness ==
    /\ last.op = "estimate_volume"
    /\ AllOk
    /\ size = 2
    /\ Val(last.arg).n = 3
    /\ Val(last.arg).n_local[0] = 2
    /\ Len(Val(obj[0]["_volumes"])) >= 2

\* C12: estimate_volume_emulated sets the volume of every cell to the number
\* of emulated points, over all workers, that query gives to the cell,
\* divided by the number of emulated points of all workers; every worker
\* ends with the same array, however the points are spread over the workers.
C12_EmulatedVolumes ==
    (last.op = "estimate_volume_emulated" /\ AllOk)
    => \A r \in Ranks :
         /\ ~IsNone(obj[r]["_volumes"])
         /\ Len(Val(obj[r]["_volumes"])) = Len(Val(obj[r]["_values"]))
         /\ \A i \in 1 .. Len(Val(obj[r]["_volumes"])) :
              Val(obj[r]["_volumes"])[i]
                 = <<Val(last.arg).owned[i - 1], Val(last.arg).n>>
         /\ obj[r]["_volumes"] = obj[0]["_volumes"]

\* estimate_volume_emulated has returned on three workers of which one held
\* no emulated point and another held two, for points in different cells
C12_Witness ==
    /\ last.op = "estimate_volume_emulated"
    /\ AllOk
    /\ size = 3
    /\ \E r, q \in Ranks : Val(last.arg).n_local[r] = 0 /\ Val(last.arg).n_local[q] = 2
    /\ \E i, j \in 1 .. Len(Val(obj[0]["_volumes"])) :
         i # j /\ Val(obj[0]["_volumes"])[i][1] > 0 /\ Val(obj[0]["_volumes"])[j][1] > 0


-----------------------------------------------------------------------------
(* Properties of the discretization model.                                 *)

DimOps == {"set_indices", "set_observed_distribution",
           "set_data_from_reference", "data_driven"}

ListInds == ~IsInt(Val(last.arg).inds)

C13_AsWritten ==
    (~IsNone(disc["_input_sample_set"]["_values"])
     /\ ~IsNone(disc["_output_sample_set"]["_values"]))
    => Val(disc["_input_sample_set"]["_values"])
          = Val(disc["_output_sample_set"]["_values"])

-----------------------------------------------------------------------------
(* Properties of the iteration model *)

\* the chunk of length consecutive indices that starts at first
Chunk(first, length) == [j \in 1 .. length |-> (j - 1) + first]

\* the discretization holds what a pushforward needs: output values, an
\* output probability set and data to estimate the noise level from
Runnable(d) ==
    /\ ~IsNone(d["_output_sample_set"]["_values"])
    /\ IF IsNone(d["_output_probability_set"]) THEN FALSE
       ELSE ~IsNone(prob(d)["_reference_value"])

\* what a step of iterate does to the discretization
IterateStep ==
    last'.op = "iterate" =>
        LET it == disc["_iteration"] + 1 IN
        /\ disc'["_iteration"] = it
        /\ DOMAIN disc'["_setup"] = DOMAIN disc["_setup"] \cup {it}
        /\ disc'["_setup"][it].qoi = default_setup.qoi
        /\ disc'["_setup"][it].model = default_setup.model
        /\ IF (it - 1) \in DOMAIN disc["_setup"]
           THEN /\ last'.res[0].status = "ok"
                /\ \A f \in {"obs", "pre", "std", "col", "inds"} :
                     disc'["_setup"][it][f] = disc["_setup"][it - 1][f]
           ELSE last'.res[0] = Raise("KeyError")
        /\ \A k \in DOMAIN disc["_setup"] \ {it} :
             disc'["_setup"][k] = disc["_setup"][k]
        /\ \A n \in DOMAIN disc \ {"_iteration", "_setup"} : disc'[n] = disc[n]

\* C14: iterate() increases the current iteration index by exactly one and
\* creates the record at the new index with observed distribution, predicted
\* distribution, std, data-driven flag and indices equal to those of its
\* predecessor and with QoI-aggregation mode and forward model at their
\* defaults; the record at every other index, the sample sets and their
\* distributions are unchanged (no pushforward is recomputed).
C14_IterateInherits == [][IterateStep]_vars

\* iterate has run on a record that holds indices, a predicted distribution
\* and the data-driven flag, with another record before it
C14_Witness ==
    /\ last.op = "iterate"
    /\ last.res[0].status = "ok"
    /\ disc["_iteration"] = 2
    /\ DOMAIN disc["_setup"] = 0 .. 2
    /\ ~IsNone(disc["_setup"][2].inds)
    /\ ~IsNone(disc["_setup"][2].pre)
    /\ disc["_setup"][2].col
    /\ disc["_setup"][0] # disc["_setup"][1]

\* C15 as written: in every reachable state the iteration records are
\* exactly those with indices 0..current, none missing and none beyond.
C15_AsWritten == DOMAIN disc["_setup"] = 0 .. disc["_iteration"]

\* C16 as written: on a freshly constructed discretization with output
\* dimension d, iterate_by(b) with b dividing d leaves d/b records
\* 0..current, record i selecting exactly the indices i*b..i*b+b-1.
C16_AsWritten ==
    [][(/\ Fresh(disc)
        /\ Runnable(disc)
        /\ last'.op = "iterate_by"
        /\ IsInt(last'.arg[1].breaks))
       => LET d == disc["_output_sample_set"]["_dim"]
              b == last'.arg[1].breaks[2]
          IN
          d % b = 0 =>
            /\ DOMAIN disc'["_setup"] = 0 .. disc'["_iteration"]
            /\ Cardinality(DOMAIN disc'["_setup"]) = d \div b
            /\ \A i \in DOMAIN disc'["_setup"] :
                 get_indices(disc', i) = Chunk(i * b, b)]_vars

\* C17 as written: on a freshly constructed discretization with output
\* dimension d, tile_by(L) with 1 <= L <= d completes without error, records
\* 0..d-L exist and record i selects exactly the indices i..i+L-1.
C17_AsWritten ==
    [][(/\ Fresh(disc)
        /\ Runnable(disc)
        /\ last'.op = "tile_by")
       => LET d == disc["_output_sample_set"]["_dim"]
              L == last'.arg[1].length
          IN
          /\ last'.res[0].status = "ok"
          /\ DOMAIN disc'["_setup"] = 0 .. (d - L)
          /\ \A i \in 0 .. (d - L) : get_indices(disc', i) = Chunk(i, L)]_vars

\* C18 as written: set_indices called without indices selects all output
\* dimensions 0..d-1 of the output sample set for that iteration, whatever
\* selection was made by earlier set_indices calls.
C18_AsWritten ==
    (/\ last.op = "set_indices"
     /\ IsNone(last.arg[1].inds)
     /\ last.res[0].status = "ok")
    => disc["_setup"][disc["_iteration"]].inds
          = Some(arange(disc["_output_sample_set"]["_dim"]))

-----------------------------------------------------------------------------
(* Properties of the density model *)

\* C19 as written: in every reachable state no iteration record has the
\* data-driven flag set together with a stored observed distribution.
C19_AsWritten ==
    \A k \in DOMAIN disc["_setup"] :
        ~(disc["_setup"][k].col /\ ~IsNone(disc["_setup"][k].obs))

\* record i's predicted density: the one stored, or else the estimate that
\* a pushforward of record i's own selection gives
RecordDensity(d, i) ==
    IF ~IsNone(d["_setup"][i].pre) THEN d["_setup"][i].pre
    ELSE Some([kind |-> "gaussian_kde", inds |-> get_indices(d, i),
               col |-> d["_setup"][i].col])

\* C20 as written: predicted_pdf(x, iteration=k) is the product of exactly
\* one factor for each iteration i in 0..k and no factor for any iteration
\* after k, the factor for iteration i being record i's predicted density.
C20_AsWritten ==
    (last.op = "predicted_pdf" /\ last.res[0].status = "ok")
    => LET out == Val(last.res[0].value)
           k == the_iteration(disc, last.arg[1].iteration)
       IN
       /\ Len(out) = k + 1
       /\ \A i \in 0 .. k :
            /\ out[i + 1].iteration = i
            /\ out[i + 1].dist = RecordDensity(disc, i)

-----------------------------------------------------------------------------
(* Properties of the comparison model *)

\* C21 as written: whenever a comparison holds a left, a right and an
\* emulated sample set, each with a domain, the three domains are the same,
\* after successful and after raising calls of the constructor, set_left,
\* set_right and set_emulated.
C21_AsWritten ==
    (/\ ~IsNone(comp)
     /\ ~IsNone(Val(comp)["_sample_set_left"])
     /\ ~IsNone(Val(comp)["_sample_set_right"])
     /\ ~IsNone(Val(Val(comp)["_sample_set_left"])["_domain"])
     /\ ~IsNone(Val(Val(comp)["_sample_set_right"])["_domain"])
     /\ ~IsNone(Val(comp)["_emulated_sample_set"]["_domain"]))
    => /\ Val(Val(comp)["_sample_set_left"])["_domain"]
            = Val(Val(comp)["_sample_set_right"])["_domain"]
       /\ Val(Val(comp)["_sample_set_left"])["_domain"]
            = Val(comp)["_emulated_sample_set"]["_domain"]

\* probabilities / volumes of a sample set at the samples ptr points to
FreshDensity(s, ptr) ==
    [i \in 1 .. Len(ptr) |->
        fdiv(Val(s["_probabilities"])[ptr[i] + 1], Val(s["_volumes"])[ptr[i] + 1])]

\* the call that led to this state returned normally from op
Returns(l, op) == l.op = op /\ l.res[0].status = "ok"

\* C22 as written: after set_left_probabilities(p) the cached left density
\* is cleared, the next estimate_density_left and the next value evaluate the
\* left density as p / volumes at the pointed-to samples whatever was
\* evaluated on the sample set before, and the cached right density and the
\* right pointer are the ones from before the call; the same with left and
\* right exchanged for set_right_probabilities.
C22_AsWritten ==
    [][/\ Returns(last', "set_left_probabilities")
          => /\ IsNone(Val(comp')["_den_left"])
             /\ \A out \in estimate_density_left(Val(comp')) :
                    /\ out.res.status = "ok"
                    /\ Val(out.ret) = FreshDensity(Val(out.c["_sample_set_left"]),
                                                     Val(out.c["_ptr_left_local"]))
                    /\ Val(out.c["_sample_set_left"])["_probabilities"] = last'.arg
             /\ \A out \in value(Val(comp'), "tv") :
                    out.res.status = "ok"
                    => Val(out.c["_den_left"])
                         = FreshDensity(Val(out.c["_sample_set_left"]),
                                        Val(out.c["_ptr_left_local"]))
             /\ Val(comp')["_den_right"] = Val(comp)["_den_right"]
             /\ Val(comp')["_ptr_right"] = Val(comp)["_ptr_right"]
             /\ Val(comp')["_ptr_right_local"] = Val(comp)["_ptr_right_local"]
       /\ Returns(last', "set_right_probabilities")
          => /\ IsNone(Val(comp')["_den_right"])
             /\ \A out \in estimate_density_right(Val(comp')) :
                    /\ out.res.status = "ok"
                    /\ Val(out.ret) = FreshDensity(Val(out.c["_sample_set_right"]),
                                                     Val(out.c["_ptr_right_local"]))
                    /\ Val(out.c["_sample_set_right"])["_probabilities"] = last'.arg
             /\ \A out \in value(Val(comp'), "tv") :
                    out.res.status = "ok"
                    => Val(out.c["_den_right"])
                         = FreshDensity(Val(out.c["_sample_set_right"]),
                                        Val(out.c["_ptr_right_local"]))
             /\ Val(comp')["_den_left"] = Val(comp)["_den_left"]
             /\ Val(comp')["_ptr_left"] = Val(comp)["_ptr_left"]
             /\ Val(comp')["_ptr_left_local"] = Val(comp)["_ptr_left_local"]]_vars

\* C23 as written: after set_emulated_sample_set the cached left and right
\* densities and both pointers are cleared, and the next value is computed
\* from pointers and densities over the points of the new emulation set.
C23_AsWritten ==
    Returns(last, "set_emulated")
    => /\ IsNone(Val(comp)["_den_left"])
       /\ IsNone(Val(comp)["_den_right"])
       /\ IsNone(Val(comp)["_ptr_left"])
       /\ IsNone(Val(comp)["_ptr_left_local"])
       /\ IsNone(Val(comp)["_ptr_right"])
       /\ IsNone(Val(comp)["_ptr_right_local"])
       /\ \A out \in value(Val(comp), "tv") :
              out.res.status = "ok"
              => /\ Val(out.c["_ptr_left_local"])
                      \in side_query(Val(out.c["_sample_set_left"]),
                                     Val(Val(comp)["_emulated_sample_set"]["_values"]))
                 /\ Val(out.c["_ptr_right_local"])
                      \in side_query(Val(out.c["_sample_set_right"]),
                                     Val(Val(comp)["_emulated_sample_set"]["_values"]))
                 /\ Len(Val(out.c["_den_left"]))
                      = side_check_num(Val(comp)["_emulated_sample_set"])
                 /\ Len(Val(out.c["_den_right"]))
                      = side_check_num(Val(comp)["_emulated_sample_set"])

\* the distance the caller of value(functional) expects before any division
RawDistance(functional, left_den, right_den) ==
    IF functional \in {"hell", "hellinger"}
    THEN sqrt(distance("sqhell", left_den, right_den).dist)
    ELSE distance(functional, left_den, right_den).dist

\* C24 as written: value returns the raw distance of the two densities
\* divided by the number of emulation points for every built-in keyword, and
\* the undivided result of a caller-supplied functional.
C24_AsWritten ==
    Returns(last, "value")
    => LET c == Val(comp)
           raw == RawDistance(Val(last.arg), Val(c["_den_left"]),
                              Val(c["_den_right"]))
           n == <<side_check_num(c["_emulated_sample_set"]), 1>>
       IN Val(last.res[0].value)
            = IF Val(last.arg) \in Callables THEN raw ELSE fdiv(raw, n)

\* the functionals of value that are symmetric in their two arguments
Symmetric == {"tv", "euclidean", "sqhell"}

\* what value(functional) can return or raise on a comparison
Values(c, functional) ==
    {<<out.res.status, out.ret>> : out \in value(c, functional)}

\* C25: for total variation, the Euclidean norm and squared Hellinger, the
\* comparison of the left with the right sample set over the emulation set
\* gives exactly the values the comparison of the right with the left gives.
C25_ValueSymmetric ==
    ~IsNone(comp)
    => \A functional \in Symmetric :
          Values(comparison(Val(comp)["_emulated_sample_set"],
                            Val(comp)["_sample_set_left"],
                            Val(comp)["_sample_set_right"]).c, functional)
            = Values(comparison(Val(comp)["_emulated_sample_set"],
                                Val(comp)["_sample_set_right"],
                                Val(comp)["_sample_set_left"]).c, functional)

\* C25 witness: value returned a distance other than 0 under a symmetric
\* functional for two sample sets with different densities
C25_Witness ==
    /\ Returns(last, "value")
    /\ Val(last.arg) \in Symmetric
    /\ Val(last.res[0].value)[1] > 0
    /\ Val(last.res[0].value)[2] > 0
    /\ Val(comp)["_den_left"] # Val(comp)["_den_right"]

\* a sample set has the Monte Carlo volumes 1 / N
UniformVolumes(s) ==
    s["_volumes"] = Some([i \in 1 .. side_check_num(s) |-> frac(1, side_check_num(s))])

\* C28 as written: on a comparison just built, when both sample sets have
\* probabilities and one lacks its volumes, estimate_density and value return
\* normally with the volumes 1 / N on that sample set; when a sample set
\* lacks its probabilities both raise AttributeError and cache no density
\* for it.
C28_AsWritten ==
    (~IsNone(comp) /\ Returns(last, "__init__"))
    => LET c == Val(comp)
           left == Val(c["_sample_set_left"])
           right == Val(c["_sample_set_right"])
           outs == estimate_density(c) \cup value(c, "tv")
       IN
       /\ (~IsNone(left["_probabilities"]) /\ ~IsNone(right["_probabilities"]))
          => \A out \in outs :
                /\ out.res.status = "ok"
                /\ IsNone(left["_volumes"])
                   => UniformVolumes(Val(out.c["_sample_set_left"]))
                /\ IsNone(right["_volumes"])
                   => UniformVolumes(Val(out.c["_sample_set_right"]))
       /\ IsNone(left["_probabilities"])
          => \A out \in outs :
                out.res.status = "AttributeError" /\ IsNone(out.c["_den_left"])
       /\ IsNone(right["_probabilities"])
          => \A out \in outs :
                out.res.status = "AttributeError" /\ IsNone(out.c["_den_right"])

\* the symmetric functionals of value, Hellinger included
SymmetricDistances == Symmetric \cup {"hell"}

\* the volumes of the left sample set at the samples the emulation points
\* point to are positive
PointedVolumesPositive(c) ==
    \A i \in 1 .. Len(Val(c["_ptr_left_local"])) :
        Val(Val(c["_sample_set_left"])["_volumes"])[Val(c["_ptr_left_local"])[i] + 1][1] > 0

buffers(h, s) ==
    {Val(h.sets[s][CopiedNames[k]]).buf :
        k \in {j \in 1 .. Len(CopiedNames) : ~IsNone(h.sets[s][CopiedNames[j]])}}

\* what the arrays of a sample set hold
entries(h, s) ==
    [k \in 1 .. Len(CopiedNames) |->
        IF IsNone(h.sets[s][CopiedNames[k]]) THEN None
        ELSE Some(contents(h, Val(h.sets[s][CopiedNames[k]])))]

\* C27 as written: copy, clip and merge leave the attributes and arrays of
\* the sample sets there were unchanged and return a sample set none of
\* whose arrays is on a buffer of another sample set, and an assignment into
\* an array of one sample set changes no array of another.
C27_AsWritten ==
    [][/\ (last'.op \in {"copy", "clip", "merge"} /\ last'.res[0].status = "ok")
          => /\ \A s \in 1 .. Len(heap.sets) :
                    /\ heap'.sets[s] = heap.sets[s]
                    /\ buffers(heap', s) \cap buffers(heap', Len(heap'.sets)) = {}
             /\ \A b \in 1 .. Len(heap.bufs) : heap'.bufs[b] = heap.bufs[b]
       /\ last'.op = "write"
          => \A s \in 1 .. Len(heap.sets) :
                s # Val(last'.arg)[1] => entries(heap', s) = entries(heap, s)]_vars

\* the index in the output probability set of the sample that owns each
\* sample of the output sample set
Owners(d) ==
    io_query(Val(Val(d["_output_probability_set"])), Val(d["_values"]))

\* C29 as written: after set_output_probability_set(S) on a discretization
\* whose output sample set has values, S having values, the io pointer of
\* every worker holds for every output sample the index of its owning sample
\* in S and is the concatenation in rank order of the local io pointers.
C29_AsWritten ==
    (/\ ~IsNone(disc)
     /\ Returns(last, "set_output_probability_set")
     /\ ~IsNone(Val(Val(disc)[0]["_output_probability_set"])))
    => \A r \in Ranks :
          /\ Val(disc)[r]["_io_ptr"] = Some(Owners(Val(disc)[r]))
          /\ ~IsNone(Val(disc)[r]["_io_ptr_local"])
          /\ Val(disc)[r]["_io_ptr"]
               = Some(ConcatRanks([q \in Ranks |->
                                      Val(Val(disc)[q]["_io_ptr_local"])], size))

\* the least k with 10^k >= n: ceil(log10(n)) for n >= 1
RECURSIVE CeilLog10From(_, _)
CeilLog10From(n, k) == IF Pow(10, k) >= n THEN k ELSE CeilLog10From(n, k + 1)

CeilLog10(n) == CeilLog10From(n, 0)

\* C30: the loop of every cell runs at most ceil(log10(max_num_emulate))
\* rounds with the budget 10 * 10^rounds, after the loop the count in the
\* cell has reached num_emulate_local or the budget max_num_emulate, and
\* the call gets through the loops of all its cells.
C30_LoopTerminates ==
    /\ [](/\ frame.rounds <= CeilLog10(frame.max_num_emulate)
          /\ frame.total_samples = 10 * Pow(10, frame.rounds)
          /\ frame.pc \in {"exit", "done"}
             => \/ frame.samples_in_cell >= frame.num_emulate_local
                \/ frame.total_samples >= frame.max_num_emulate)
    /\ <>(frame.pc = "done")

\* C30 witness: the loop of a cell ran three rounds and ended on the budget
\* with fewer points in the cell than asked for
C30_Witness ==
    /\ frame.pc = "exit"
    /\ frame.rounds = 3
    /\ frame.total_samples >= frame.max_num_emulate
    /\ frame.samples_in_cell < frame.num_emulate_local

====
